---- MODULE Spec2Model ----
(***************************************************************************)
(* Verification model of the recipe-extraction servers of this repository: *)
(* the POST /analyze handlers of src/server/server.ts, src/unnamed/part_002 *)
(* and src/unnamed/part_003.  The repository holds eight variants of the    *)
(* same handler; the variable `variant` says which one is deployed.         *)
(*                                                                         *)
(* Strings are TLA+ strings, String.prototype.includes is a real substring  *)
(* search, template literals are concatenations.                           *)
(***************************************************************************)
EXTENDS Integers, Sequences, FiniteSets, TLC

\* ------------------------------------------------------------------------
\* Bounds of the model
\* ------------------------------------------------------------------------

\* number of pieces a classifier input is concatenated from
MaxParts == 3

\* length of the image list of a model answer
MaxImages == 3

\* largest number of minutes (and smallest, negated) the display is given
MaxMinutes == 125

\* ------------------------------------------------------------------------
\* JavaScript values and strings
\* ------------------------------------------------------------------------

Undefined == [t |-> "undefined"]
Null == [t |-> "null"]
Str(s) == [t |-> "string", s |-> s]
Arr(a) == [t |-> "array", a |-> a]

\* a number, with the string a template literal makes of it
Num(s) == [t |-> "number", s |-> s]

Bool(b) == [t |-> "boolean", b |-> b]

\* JavaScript truthiness, as used by `!x`, `x || ''` and `a && b`
Truthy(v) ==
  CASE v.t = "string" -> v.s # ""
    [] v.t = "number" -> v.s \notin {"0", "NaN"}
    [] v.t = "boolean" -> v.b
    [] v.t \in {"array", "object"} -> TRUE
    [] OTHER -> FALSE

\* v || ''
OrEmpty(v) == IF Truthy(v) THEN v.s ELSE ""

\* String.prototype.includes
Includes(s, n) ==
  \E i \in 1..(Len(s) - Len(n) + 1) : SubSeq(s, i, i + Len(n) - 1) = n

\* s.startsWith(p)
StartsWith(s, p) == Len(p) <= Len(s) /\ SubSeq(s, 1, Len(p)) = p

\* first index >= i of s holding one of the one-character strings of cs,
\* Len(s) + 1 when there is none
RECURSIVE IndexOfAny(_, _, _)
IndexOfAny(s, cs, i) ==
  IF i > Len(s) THEN Len(s) + 1
  ELSE IF SubSeq(s, i, i) \in cs THEN i
  ELSE IndexOfAny(s, cs, i + 1)

\* String.prototype.toUpperCase on the one-character strings that occur as
\* the first letter of a platform tag
ToUpperChar(c) ==
  CASE c = "t" -> "T"
    [] c = "y" -> "Y"
    [] c = "i" -> "I"
    [] c = "w" -> "W"
    [] c = "u" -> "U"
    [] OTHER -> c

\* platform.charAt(0).toUpperCase() + platform.slice(1)
Capitalize(s) ==
  IF s = "" THEN "" ELSE ToUpperChar(SubSeq(s, 1, 1)) \o SubSeq(s, 2, Len(s))

\* characters encodeURIComponent leaves alone
Unreserved ==
  { "a", "b", "c", "d", "e", "f", "g", "h", "i", "j", "k", "l", "m", "n", "o",
    "p", "q", "r", "s", "t", "u", "v", "w", "x", "y", "z",
    "A", "B", "C", "D", "E", "F", "G", "H", "I", "J", "K", "L", "M", "N", "O",
    "P", "Q", "R", "S", "T", "U", "V", "W", "X", "Y", "Z",
    "0", "1", "2", "3", "4", "5", "6", "7", "8", "9",
    "-", "_", ".", "!", "~", "*", "'", "(", ")" }

\* percent-encoding of one (ASCII) character
EncodeChar(c) ==
  CASE c \in Unreserved -> c
    [] c = ":" -> "%3A"
    [] c = "/" -> "%2F"
    [] c = "?" -> "%3F"
    [] c = "=" -> "%3D"
    [] c = "@" -> "%40"
    [] c = "&" -> "%26"
    [] c = "#" -> "%23"
    [] c = " " -> "%20"
    [] c = "\"" -> "%22"
    [] c = "%" -> "%25"
    [] OTHER -> "%EF%BF%BD"

\* encodeURIComponent
RECURSIVE encodeURIComponent(_)
encodeURIComponent(s) ==
  IF s = "" THEN ""
  ELSE EncodeChar(SubSeq(s, 1, 1)) \o encodeURIComponent(SubSeq(s, 2, Len(s)))

\* ------------------------------------------------------------------------
\* The URL classifier, in its three versions
\* ------------------------------------------------------------------------

\* a classifier that looks for "tiktok" instead of "tiktok.com"
getPlatform_ShortNeedle(url) ==
  IF Includes(url, "tiktok") THEN "tiktok"
  ELSE IF Includes(url, "youtube.com") \/ Includes(url, "youtu.be") THEN "youtube"
  ELSE "website"

\* three tags: server.ts (structured variant) and part_003 (rich HTML variant)
getPlatform(url) ==
  IF Includes(url, "tiktok.com") THEN "tiktok"
  ELSE IF Includes(url, "youtube.com") \/ Includes(url, "youtu.be") THEN "youtube"
  ELSE "website"

\* a classifier that checks instagram before youtube
getPlatformInstagram_InstagramFirst(url) ==
  IF Includes(url, "tiktok.com") THEN "tiktok"
  ELSE IF Includes(url, "instagram.com") THEN "instagram"
  ELSE IF Includes(url, "youtube.com") \/ Includes(url, "youtu.be") THEN "youtube"
  ELSE "website"

\* four tags: part_002 (multi-platform raw variant) and part_003 (simple HTML
\* variant)
getPlatformInstagram(url) ==
  IF Includes(url, "tiktok.com") THEN "tiktok"
  ELSE IF Includes(url, "youtube.com") \/ Includes(url, "youtu.be") THEN "youtube"
  ELSE IF Includes(url, "instagram.com") THEN "instagram"
  ELSE "website"

\* a classifier that checks youtube before tiktok
getPlatformUnknown_YoutubeFirst(url) ==
  IF Includes(url, "youtube.com") \/ Includes(url, "youtu.be") THEN "youtube"
  ELSE IF Includes(url, "tiktok.com") THEN "tiktok"
  ELSE IF Includes(url, "instagram.com") THEN "instagram"
  ELSE "unknown"

\* the stricter classifier of the videoUrl variant
getPlatformUnknown(url) ==
  IF Includes(url, "tiktok.com") THEN "tiktok"
  ELSE IF Includes(url, "youtube.com") \/ Includes(url, "youtu.be") THEN "youtube"
  ELSE IF Includes(url, "instagram.com") THEN "instagram"
  ELSE "unknown"

\* ------------------------------------------------------------------------
\* The eight handler variants
\* ------------------------------------------------------------------------

\* structured     server.ts 1-242      {success, source, processing_time, data}
\* tiktokRaw      server.ts 243-325    {recipe: text}, TikTok only, no oEmbed
\* tiktokOembed   part_002 38-151      {recipe: text}, TikTok only, oEmbed
\* multiRaw       part_002 152-298     {recipe: text}, Instagram refused
\* promptAnalysis part_002 299-382     {analysis: text}, needs prompt + URL
\* videoUrl       part_002 384-520     {recipe: text}, unknown URLs refused
\* htmlSimple     part_003 1-161       {html}, Instagram refused
\* htmlRich       part_003 163-393     {html}, images
Variants ==
  { "structured", "tiktokRaw", "tiktokOembed", "multiRaw", "promptAnalysis",
    "videoUrl", "htmlSimple", "htmlRich" }

\* name of the body field the handler destructures as the source URL
UrlField(v) ==
  CASE v \in {"structured", "multiRaw", "htmlSimple", "htmlRich"} -> "sourceUrl"
    [] v \in {"tiktokRaw", "tiktokOembed", "promptAnalysis"} -> "tiktokUrl"
    [] v = "videoUrl" -> "videoUrl"

\* const platform = getPlatform(url); the TikTok-only variants classify nothing
Classify(v, url) ==
  CASE v \in {"structured", "htmlRich"} -> getPlatform(url)
    [] v \in {"multiRaw", "htmlSimple"} -> getPlatformInstagram(url)
    [] v = "videoUrl" -> getPlatformUnknown(url)
    [] OTHER -> "none"

\* getPlatform(url) with a url that is no string: url.includes is not a
\* function, a TypeError thrown before the handler's try block
ClassifierThrows(v, b) == Classify(v, "") # "none" /\ b.url.t # "string"

\* a guard that tests `=== undefined` instead of falsiness
MissingInput_UndefinedOnly(v, b) ==
  IF v = "promptAnalysis" THEN b.prompt = Undefined \/ b.url = Undefined
  ELSE b.url = Undefined

\* if (!sourceUrl) / if (!tiktokUrl) / if (!videoUrl) / if (!prompt || !tiktokUrl)
MissingInput(v, b) ==
  IF v = "promptAnalysis" THEN ~Truthy(b.prompt) \/ ~Truthy(b.url)
  ELSE ~Truthy(b.url)

MissingInputMessage(v) ==
  IF v = "promptAnalysis" THEN "Missing prompt or tiktokUrl in request body"
  ELSE "Missing " \o UrlField(v) \o " in request body"

\* a guard that tests `=== undefined` instead of falsiness
ApiKeyMissing_UndefinedOnly(key) == key = Undefined

\* if (!process.env.API_KEY)
ApiKeyMissing(key) == ~Truthy(key)

ApiKeyMessage == "API_KEY is not configured on the server."

InstagramMessage ==
  "Recipe extraction from Instagram is not supported due to their strict content privacy and access restrictions. Please try a URL from TikTok, YouTube, or a public recipe website."

UnknownMessage ==
  "Unsupported video URL. Please use a valid TikTok, YouTube, or Instagram URL."

\* only the raw variant keeps the guard
RefusesInstagram_RawOnly(v) == v = "multiRaw"

\* if (platform === 'instagram') return res.status(400)...
RefusesInstagram(v) == v \in {"multiRaw", "htmlSimple"}

\* a handler without the guard
RefusesUnknown_Never(v) == FALSE

\* if (platform === 'unknown') return res.status(400)...
RefusesUnknown(v) == v = "videoUrl"

\* a handler that asks the oEmbed endpoint whatever the platform tag
FetchesOembed_AnyPlatform(v, p) ==
  v \in {"tiktokOembed", "structured", "multiRaw", "videoUrl", "htmlSimple", "htmlRich"}

\* the handler awaits fetch(oembedUrl) for this request
FetchesOembed(v, p) ==
  CASE v = "tiktokOembed" -> TRUE
    [] v \in {"structured", "multiRaw", "videoUrl", "htmlSimple", "htmlRich"} ->
         p \in {"tiktok", "youtube"}
    [] OTHER -> FALSE

\* platform === 'tiktok' ? tiktok oembed : youtube oembed
OembedUrl(v, p, url) ==
  IF v = "tiktokOembed" \/ p = "tiktok"
  THEN "https://www.tiktok.com/oembed?url=" \o encodeURIComponent(url)
  ELSE "https://www.youtube.com/oembed?url=" \o encodeURIComponent(url)

\* ------------------------------------------------------------------------
\* Prompt construction
\* ------------------------------------------------------------------------

\* `||` in the place of `&&`
titleAuthorInfo_Or(videoTitle, videoAuthor) ==
  IF videoTitle # "" \/ videoAuthor # ""
  THEN "titled \"" \o videoTitle \o "\" by author \"" \o videoAuthor \o "\""
  ELSE ""

\* (videoTitle && videoAuthor) ? `titled "..." by author "..."` : ''
titleAuthorInfo(videoTitle, videoAuthor) ==
  IF videoTitle # "" /\ videoAuthor # ""
  THEN "titled \"" \o videoTitle \o "\" by author \"" \o videoAuthor \o "\""
  ELSE ""

\* if (videoTitle && videoAuthor) prompt = ... else prompt = ...
\* (multiRaw, videoUrl, htmlSimple with the capitalized tag; tiktokOembed
\* with the literal "TikTok")
TitledPrompt(platformName, videoTitle, videoAuthor, url) ==
  IF videoTitle # "" /\ videoAuthor # ""
  THEN "From the " \o platformName \o " video titled \"" \o videoTitle
       \o "\" by author \"" \o videoAuthor \o "\" (URL: " \o url
       \o "), please extract the recipe."
  ELSE "From the " \o platformName \o " video at " \o url
       \o ", extract the recipe."

StructuredVideoTail ==
  "\n\nCarefully analyze the video's content from beginning to end. Your analysis must be based *only* on the visual and audio information present in the video itself. Do not infer or guess details not shown or mentioned.\n\nFrom the video, extract the following information with the highest possible accuracy:\n1.  **Recipe Name:** The name of the dish being made.\n2.  **Description:** A short summary of the final dish.\n3.  **Ingredients:** A complete list of all ingredients shown or mentioned, including precise quantities and measurements (e.g., \"1 cup flour\", \"2 tbsp olive oil\").\n4.  **Instructions:** A step-by-step guide on how to make the recipe, as demonstrated in the video.\n5.  **Prep Time:** The preparation time, if mentioned (e.g., \"15 minutes\").\n6.  **Cook Time:** The cooking time, if mentioned (e.g., \"30 minutes\").\n7.  **Total Time:** The total time (prep + cook) to make the recipe, if mentioned.\n8.  **Servings:** The number of servings the recipe makes, if mentioned (e.g., \"4 servings\")."

StructuredVideoPrompt(platformName, videoTitle, videoAuthor, url) ==
  "Your primary task is to extract a recipe from the " \o platformName
  \o " video located at the URL: " \o url \o ". The video is reportedly "
  \o titleAuthorInfo(videoTitle, videoAuthor) \o "." \o StructuredVideoTail

RichVideoPrompt(platformName, videoTitle, videoAuthor, url) ==
  "Analyze the " \o platformName \o " video "
  \o titleAuthorInfo(videoTitle, videoAuthor)
  \o " available at this URL: " \o url
  \o ". Extract a detailed recipe from the video's content. Your response must include the following details if they are available: ingredients with precise quantities, step-by-step instructions for preparation, the preparation time, the cooking time, and the number of servings this recipe yields."

\* the prompt of the branch that has fetched (or skipped) the oEmbed data
VideoPrompt(v, p, videoTitle, videoAuthor, url) ==
  CASE v = "structured" ->
         StructuredVideoPrompt(Capitalize(p), videoTitle, videoAuthor, url)
    [] v = "htmlRich" ->
         RichVideoPrompt(Capitalize(p), videoTitle, videoAuthor, url)
    [] v = "tiktokOembed" ->
         TitledPrompt("TikTok", videoTitle, videoAuthor, url)
    [] v \in {"multiRaw", "videoUrl", "htmlSimple"} ->
         TitledPrompt(Capitalize(p), videoTitle, videoAuthor, url)

\* the prompt of the branches that never fetch oEmbed data
PlainPrompt(v, p, b) ==
  CASE v = "structured" ->
         "Scrape the recipe from the webpage at this URL: " \o b.url.s
         \o ". Extract the exact step-by-step instructions and ingredients from the main body of the page. Extract the following details: the recipe's name, a brief description of the dish, the preparation time, the cooking time, the total time, the number of servings, and all relevant images. You must categorize each image found: 1. The primary 'main' image of the finished dish (the hero or thumbnail image). 2. Any 'step' images that visually correspond to a specific instruction. 3. Any other 'additional' photos of the dish. For each image, provide its full, direct URL, a concise description, and its category ('main', 'step', or 'additional')."
    [] v = "htmlRich" ->
         "Scrape the recipe from the webpage at this URL: " \o b.url.s
         \o ". Extract the following details: the recipe's name, a brief description of the dish, all ingredients with their quantities, the complete step-by-step instructions, the preparation time, the cooking time, the number of servings, and all relevant images. For each image, you must provide its full, direct URL and a concise description of what the image shows."
    [] v \in {"multiRaw", "htmlSimple"} ->
         "Please extract the recipe from the content of the following URL: "
         \o b.url.s \o "."
    [] v = "tiktokRaw" ->
         "From the TikTok video at " \o b.url.s \o ", extract the recipe."
    [] v = "promptAnalysis" ->
         "Analyze the content of the TikTok video found at this URL: "
         \o b.url.s \o ". The user's specific request is: \"" \o b.prompt.s
         \o "\""
    [] v = "videoUrl" ->
         TitledPrompt(Capitalize(p), "", "", b.url.s)

\* which of the two system instructions the call carries ("none": the call
\* has no config)
SystemInstruction(v, p) ==
  CASE v = "promptAnalysis" -> "none"
    [] v \in {"tiktokRaw", "tiktokOembed"} -> "tiktok-recipe-bot"
    [] v = "videoUrl" -> "video-recipe-bot"
    [] p \in {"tiktok", "youtube"} -> "video-recipe-bot"
    [] OTHER -> "web-scraper"

\* a schema that declares the image list on every path
SchemaProperties_AlwaysImages(v, p) ==
  IF v = "promptAnalysis" THEN {}
  ELSE {"recipeName", "description", "ingredients", "instructions", "images"}

\* const properties = {...}; if (platform === 'website') properties.images = ...
SchemaProperties(v, p) ==
  CASE v = "structured" ->
         {"recipeName", "description", "prepTime", "cookTime", "totalTime",
          "servings", "ingredients", "instructions"}
         \cup (IF p = "website" THEN {"images"} ELSE {})
    [] v = "htmlRich" ->
         {"recipeName", "description", "prepTime", "cookTime",
          "servings", "ingredients", "instructions"}
         \cup (IF p = "website" THEN {"images"} ELSE {})
    [] v = "promptAnalysis" -> {}
    [] OTHER -> {"recipeName", "description", "ingredients", "instructions"}

SchemaRequired(v) ==
  IF v = "promptAnalysis" THEN {}
  ELSE {"recipeName", "description", "ingredients", "instructions"}

\* the argument of ai.models.generateContent
GenerateContentCall(v, p, prompt) ==
  [ model |-> "gemini-2.5-flash",
    contents |-> prompt,
    systemInstruction |-> SystemInstruction(v, p),
    properties |-> SchemaProperties(v, p),
    required |-> SchemaRequired(v) ]

\* ------------------------------------------------------------------------
\* Response normalization: JSON.parse, URL resolution, numeric fields
\* ------------------------------------------------------------------------

RECURSIVE JoinAll(_)
JoinAll(parts) ==
  IF parts = <<>> THEN "" ELSE Head(parts) \o JoinAll(Tail(parts))

Digits == {"0", "1", "2", "3", "4", "5", "6", "7", "8", "9"}

DigitValue(c) ==
  CASE c = "0" -> 0 [] c = "1" -> 1 [] c = "2" -> 2 [] c = "3" -> 3
    [] c = "4" -> 4 [] c = "5" -> 5 [] c = "6" -> 6 [] c = "7" -> 7
    [] c = "8" -> 8 [] c = "9" -> 9

\* parseInt(digits, 10) of a non-empty run of decimal digits
RECURSIVE ParseInt(_)
ParseInt(ds) ==
  IF ds = "" THEN 0
  ELSE 10 * ParseInt(SubSeq(ds, 1, Len(ds) - 1))
       + DigitValue(SubSeq(ds, Len(ds), Len(ds)))

\* index after the run of digits that starts at i
RECURSIVE DigitRunEnd(_, _)
DigitRunEnd(s, i) ==
  IF i <= Len(s) /\ SubSeq(s, i, i) \in Digits THEN DigitRunEnd(s, i + 1) ELSE i

\* a parser that reads all the digits of the text as one number
parseNumericValue_AllDigits(text) ==
  IF ~Truthy(text) THEN 0
  ELSE ParseInt(JoinAll([i \in 1..Len(text.s) |->
         IF SubSeq(text.s, i, i) \in Digits THEN SubSeq(text.s, i, i) ELSE ""]))

\* if (!text) return 0; const match = text.match(/\d+/);
\* return match ? parseInt(match[0], 10) : 0
parseNumericValue(text) ==
  IF ~Truthy(text) THEN 0
  ELSE LET first == IndexOfAny(text.s, Digits, 1)
       IN  IF first > Len(text.s) THEN 0
           ELSE ParseInt(SubSeq(text.s, first, DigitRunEnd(text.s, first) - 1))

\* new URL(s) for the http(s) URLs of the model: scheme, host up to the
\* first "/", "?" or "#", and the rest; every other string is not an
\* absolute URL (new URL throws TypeError)
ParseUrl(s) ==
  LET scheme == IF StartsWith(s, "https://") THEN "https"
                ELSE IF StartsWith(s, "http://") THEN "http" ELSE ""
      from == Len(scheme) + 4
      stop == IndexOfAny(s, {"/", "?", "#"}, from)
      colon == IndexOfAny(s, {":"}, from)
      hostEnd == IF colon < stop THEN colon ELSE stop
      host == SubSeq(s, from, hostEnd - 1)
      port == SubSeq(s, hostEnd, stop - 1)
      rest == SubSeq(s, stop, Len(s))
  IN  IF scheme = "" \/ host = "" THEN [ok |-> FALSE]
      ELSE [ ok |-> TRUE, scheme |-> scheme, hostname |-> host,
             port |-> IF port = ":" THEN "" ELSE port,
             rest |-> IF rest = "" \/ SubSeq(rest, 1, 1) # "/"
                      THEN "/" \o rest ELSE rest ]

\* url.href (the port with its colon; the URLs of the model have no default
\* port written out)
Href(u) == u.scheme \o "://" \o u.hostname \o u.port \o u.rest

\* index of the last "/" of a path that starts with "/"
RECURSIVE LastSlash(_, _)
LastSlash(path, i) ==
  IF i <= 1 THEN 1
  ELSE IF SubSeq(path, i, i) = "/" THEN i ELSE LastSlash(path, i - 1)

\* the path of u.rest, without query and fragment
PathOf(u) == SubSeq(u.rest, 1, IndexOfAny(u.rest, {"?", "#"}, 1) - 1)

\* new URL(rel, base).href: [ok |-> FALSE] when the constructor throws; the
\* base is parsed first, and a base that is not an absolute URL makes the
\* constructor throw whatever rel is
ResolveUrl(rel, base) ==
  LET r == ParseUrl(rel)
      b == ParseUrl(base)
      looksAbsolute == StartsWith(rel, "https:") \/ StartsWith(rel, "http:")
  IN  IF ~b.ok THEN [ok |-> FALSE]
      ELSE IF r.ok THEN [ok |-> TRUE, href |-> Href(r)]
      ELSE IF looksAbsolute THEN [ok |-> FALSE]
      ELSE IF StartsWith(rel, "//")
        THEN LET a == ParseUrl(b.scheme \o ":" \o rel)
             IN  IF a.ok THEN [ok |-> TRUE, href |-> Href(a)] ELSE [ok |-> FALSE]
      ELSE IF StartsWith(rel, "/")
        THEN [ok |-> TRUE, href |-> b.scheme \o "://" \o b.hostname \o b.port \o rel]
      ELSE LET path == PathOf(b)
               dir == SubSeq(path, 1, LastSlash(path, Len(path)))
           IN  [ ok |-> TRUE,
                 href |-> b.scheme \o "://" \o b.hostname \o b.port \o dir \o rel ]

\* texts the model can answer with
RecipeTextPartial ==
  "{\"recipeName\":\"Pasta\",\"description\":\"Quick dinner\"}"

RecipeTextPlain ==
  "{\"recipeName\":\"Pasta\",\"description\":\"Quick dinner\",\"prepTime\":\"15 minutes\",\"cookTime\":\"1 hour 30 minutes\",\"servings\":\"serves four\",\"ingredients\":[\"200g spaghetti\",\"2 eggs\"],\"instructions\":[\"Boil\",\"Mix\"]}"

RecipeTextImages ==
  "{\"recipeName\":\"Pasta\",\"description\":\"Quick dinner\",\"totalTime\":\"45 minutes\",\"servings\":\"4 servings\",\"ingredients\":[\"200g spaghetti\"],\"instructions\":[\"Boil\"],\"images\":[{\"url\":\"/img/x.jpg\",\"description\":\"step one\",\"category\":\"step\"},{\"url\":\"\",\"description\":\"blank\",\"category\":\"additional\"},{\"url\":\"https://\",\"description\":\"broken\",\"category\":\"main\"},{\"url\":\"https://cdn.example.com/main.jpg\",\"description\":\"the dish\",\"category\":\"main\"}]}"

Image(url, description, category) ==
  [url |-> Str(url), description |-> Str(description), category |-> Str(category)]

RecipeObject(prepTime, cookTime, totalTime, servings, ingredients, instructions, images) ==
  [ t |-> "object", recipeName |-> Str("Pasta"), description |-> Str("Quick dinner"),
    prepTime |-> prepTime, cookTime |-> cookTime, totalTime |-> totalTime,
    servings |-> servings, ingredients |-> ingredients,
    instructions |-> instructions, images |-> images ]

\* JSON.parse on the texts of the model: [ok |-> FALSE] for a SyntaxError
JSONParse(s) ==
  CASE s = "null" -> [ok |-> TRUE, value |-> Null]
    [] s = RecipeTextPartial ->
         [ ok |-> TRUE,
           value |-> RecipeObject(Undefined, Undefined, Undefined, Undefined,
                                  Undefined, Undefined, Undefined) ]
    [] s = RecipeTextPlain ->
         [ ok |-> TRUE,
           value |-> RecipeObject(Str("15 minutes"), Str("1 hour 30 minutes"),
                                  Undefined, Str("serves four"),
                                  Arr(<<"200g spaghetti", "2 eggs">>),
                                  Arr(<<"Boil", "Mix">>), Undefined) ]
    [] s = RecipeTextImages ->
         [ ok |-> TRUE,
           value |-> RecipeObject(Undefined, Undefined, Str("45 minutes"),
                                  Str("4 servings"),
                                  Arr(<<"200g spaghetti">>), Arr(<<"Boil">>),
                                  Arr(<< Image("/img/x.jpg", "step one", "step"),
                                         Image("", "blank", "additional"),
                                         Image("https://", "broken", "main"),
                                         Image("https://cdn.example.com/main.jpg",
                                               "the dish", "main") >>)) ]
    [] OTHER -> [ok |-> FALSE]

\* a callback that keeps an image it cannot resolve, with its URL untouched
NormalizeImage_KeepsUnresolved(image, sourceUrl) ==
  IF ~Truthy(image.url) THEN Null
  ELSE LET resolved == ResolveUrl(image.url.s, sourceUrl)
       IN  IF ~resolved.ok THEN image
           ELSE [image EXCEPT !.url = Str(resolved.href)]

\* a callback that resolves every URL as a path of the source's host
NormalizeImage_HostOnly(image, sourceUrl) ==
  IF ~Truthy(image.url) THEN Null
  ELSE LET base == ParseUrl(sourceUrl)
       IN  IF ~base.ok \/ ~ResolveUrl(image.url.s, sourceUrl).ok THEN Null
           ELSE [image EXCEPT !.url =
                   Str(base.scheme \o "://" \o base.hostname \o "/" \o image.url.s)]

\* image => { if (!image.url) return null;
\*            try { return { ...image, url: new URL(image.url, sourceUrl).href } }
\*            catch (e) { return null } }
NormalizeImage(image, sourceUrl) ==
  IF ~Truthy(image.url) THEN Null
  ELSE LET resolved == ResolveUrl(image.url.s, sourceUrl)
       IN  IF ~resolved.ok THEN Null
           ELSE [image EXCEPT !.url = Str(resolved.href)]

\* recipe.images.map(image => ...)
MapImages(images, sourceUrl) ==
  [i \in 1..Len(images) |-> NormalizeImage(images[i], sourceUrl)]

\* recipe.images.map(...).filter(image => image !== null)
NormalizeImages(images, sourceUrl) ==
  SelectSeq(MapImages(images, sourceUrl), LAMBDA image : image # Null)

\* if (recipe.images && platform === 'website') recipe.images = ...
NormalizedRecipe(recipe, p, sourceUrl) ==
  IF Truthy(recipe.images) /\ p = "website"
  THEN [recipe EXCEPT !.images = Arr(NormalizeImages(recipe.images.a, sourceUrl))]
  ELSE recipe

\* a selection that always takes the first entry
mainImage_FirstEntry(recipe) ==
  IF ~Truthy(recipe.images) \/ recipe.images.a = <<>> THEN Null
  ELSE recipe.images.a[1]

\* recipe.images?.find(img => img.category === 'main') || recipe.images?.[0] || null
mainImage(recipe) ==
  IF ~Truthy(recipe.images) \/ recipe.images.a = <<>> THEN Null
  ELSE LET a == recipe.images.a
           mains == {i \in 1..Len(a) : a[i].category = Str("main")}
       IN  IF mains # {}
           THEN a[CHOOSE i \in mains : \A j \in mains : i <= j]
           ELSE a[1]

\* ------------------------------------------------------------------------
\* HTML rendering of the two HTML variants (the markup is kept, the
\* indentation between the elements is not)
\* ------------------------------------------------------------------------

\* `${value}` in a template literal
Interpolate(v) ==
  CASE v.t = "string" -> v.s
    [] v.t = "null" -> "null"
    [] OTHER -> "undefined"

\* items.map(item => `<li>${item}</li>`).join('')
ListItems(items) == JoinAll([i \in 1..Len(items) |-> "<li>" \o items[i] \o "</li>"])

SimpleHtml(recipe) ==
  "<div><h3 class=\"text-2xl font-bold !text-purple-300 !mt-0\">"
  \o Interpolate(recipe.recipeName)
  \o "</h3><p class=\"!text-gray-300 italic\">"
  \o Interpolate(recipe.description)
  \o "</p><h4 class=\"text-xl font-bold !text-indigo-300 mt-6 mb-2\">Ingredients</h4><ul class=\"list-disc list-inside !text-gray-300 space-y-1\">"
  \o ListItems(recipe.ingredients.a)
  \o "</ul><h4 class=\"text-xl font-bold !text-indigo-300 mt-6 mb-2\">Instructions</h4><ol class=\"list-decimal list-inside !text-gray-300 space-y-2\">"
  \o ListItems(recipe.instructions.a)
  \o "</ol></div>"

\* recipe.prepTime ? `<li><strong ...>Prep Time:</strong> ${...}</li>` : ''
InfoItem(label, v) ==
  IF Truthy(v)
  THEN "<li><strong class=\"font-semibold text-indigo-400\">" \o label
       \o ":</strong> " \o v.s \o "</li>"
  ELSE ""

additionalInfoHtml(recipe) ==
  InfoItem("Prep Time", recipe.prepTime) \o InfoItem("Cook Time", recipe.cookTime)
  \o InfoItem("Servings", recipe.servings)

\* recipe.images?.map(img => `<figure>...</figure>`).join('') || ''
imagesHtml(recipe) ==
  IF ~Truthy(recipe.images) THEN ""
  ELSE LET a == recipe.images.a
       IN  JoinAll([i \in 1..Len(a) |->
             "<figure class=\"my-4\"><img src=\"" \o Interpolate(a[i].url)
             \o "\" alt=\"" \o Interpolate(a[i].description)
             \o "\" class=\"w-full h-auto rounded-lg shadow-md object-cover\" loading=\"lazy\" /><figcaption class=\"text-center text-sm text-gray-400 mt-2\">"
             \o Interpolate(a[i].description) \o "</figcaption></figure>"])

RichHtml(recipe) ==
  "<div>"
  \o (IF imagesHtml(recipe) # ""
      THEN "<div class=\"mb-6\">" \o imagesHtml(recipe) \o "</div>" ELSE "")
  \o "<h3 class=\"text-3xl font-bold !text-purple-300 !mt-0\">"
  \o Interpolate(recipe.recipeName)
  \o "</h3><p class=\"!text-gray-300 italic mt-2\">"
  \o Interpolate(recipe.description) \o "</p>"
  \o (IF additionalInfoHtml(recipe) # ""
      THEN "<div class=\"my-6 p-4 bg-gray-900/70 rounded-lg border border-gray-700\"><ul class=\"flex flex-wrap items-center gap-x-6 gap-y-2 !text-gray-300\">"
           \o additionalInfoHtml(recipe) \o "</ul></div>"
      ELSE "")
  \o "<div class=\"grid grid-cols-1 md:grid-cols-2 gap-x-8 mt-6\"><div><h4 class=\"text-xl font-bold !text-indigo-300 mb-2\">Ingredients</h4><ul class=\"list-disc list-inside !text-gray-300 space-y-1\">"
  \o ListItems(recipe.ingredients.a)
  \o "</ul></div><div><h4 class=\"text-xl font-bold !text-indigo-300 mb-2\">Instructions</h4><ol class=\"list-decimal list-inside !text-gray-300 space-y-2\">"
  \o ListItems(recipe.instructions.a)
  \o "</ol></div></div></div>"

\* ------------------------------------------------------------------------
\* Responses
\* ------------------------------------------------------------------------

\* res.status(status).json({ error }) / ({ success: false, error })
ErrorResponse(v, status, message) ==
  [ status |-> status,
    body |-> [ kind |-> "error",
               success |-> IF v = "structured" THEN "false" ELSE "absent",
               error |-> message, payload |-> Undefined ] ]

\* res.json(...): status 200
SuccessResponse(kind, success, payload) ==
  [ status |-> 200,
    body |-> [kind |-> kind, success |-> success, error |-> "", payload |-> payload] ]

EmptyMessage == "Failed to get recipe data from AI. The response was empty."
ParseMessage == "Failed to parse recipe data from AI. The format was invalid."

\* catch (error) { ... res.status(500).json({ error: `Failed to ... ${message}` }) }
CatchResponse(v, message) ==
  ErrorResponse(v, 500,
    (IF v = "promptAnalysis" THEN "Failed to analyze video. "
     ELSE "Failed to get recipe. ") \o message)

\* the TypeError of reading a property of null / calling .map on undefined
NullReadMessage(prop) == "Cannot read properties of null (reading '" \o prop \o "')"
UndefinedMapMessage == "Cannot read properties of undefined (reading 'map')"

\* a handler that leaves the host empty when the source URL does not parse
StructuredResponse_HostFallback(p, sourceUrl, value, elapsed) ==
  IF value = Null THEN CatchResponse("structured", NullReadMessage("images"))
  ELSE LET recipe == NormalizedRecipe(value, p, sourceUrl)
           main == mainImage(recipe)
           url == ParseUrl(sourceUrl)
       IN  SuccessResponse("data", "true",
             [ source |-> p,
               processing_time |-> elapsed,
               data |->
                 [ title |-> recipe.recipeName,
                   description |-> recipe.description,
                   prep_time |-> parseNumericValue(recipe.prepTime),
                   cook_time |-> parseNumericValue(recipe.cookTime),
                   total_time |-> parseNumericValue(recipe.totalTime),
                   yields |-> parseNumericValue(recipe.servings),
                   ingredients |-> recipe.ingredients,
                   instructions |-> recipe.instructions,
                   image |-> IF main # Null /\ Truthy(main.url)
                             THEN main.url ELSE Null,
                   url |-> sourceUrl,
                   host |-> IF url.ok THEN url.hostname ELSE "" ] ])

\* server.ts 191-231: the structured variant once JSON.parse has returned
StructuredResponse(p, sourceUrl, value, elapsed) ==
  IF value = Null THEN CatchResponse("structured", NullReadMessage("images"))
  ELSE LET recipe == NormalizedRecipe(value, p, sourceUrl)
           main == mainImage(recipe)
           url == ParseUrl(sourceUrl)
       IN  IF ~url.ok THEN CatchResponse("structured", "Invalid URL")
           ELSE SuccessResponse("data", "true",
                  [ source |-> p,
                    processing_time |-> elapsed,
                    data |->
                      [ title |-> recipe.recipeName,
                        description |-> recipe.description,
                        prep_time |-> parseNumericValue(recipe.prepTime),
                        cook_time |-> parseNumericValue(recipe.cookTime),
                        total_time |-> parseNumericValue(recipe.totalTime),
                        yields |-> parseNumericValue(recipe.servings),
                        ingredients |-> recipe.ingredients,
                        instructions |-> recipe.instructions,
                        image |-> IF main # Null /\ Truthy(main.url)
                                  THEN main.url ELSE Null,
                        url |-> sourceUrl,
                        host |-> url.hostname ] ])

\* server.ts 177-231: the structured variant after the model has answered
StructuredFinish(p, sourceUrl, text, elapsed) ==
  IF ~Truthy(text) THEN CatchResponse("structured", EmptyMessage)
  ELSE LET parsed == JSONParse(text.s) IN
    IF ~parsed.ok THEN CatchResponse("structured", ParseMessage)
    ELSE StructuredResponse(p, sourceUrl, parsed.value, elapsed)

\* a parse failure that is swallowed: the raw text is sent as the fragment
SimpleHtmlFinish_Swallow(text) ==
  LET parsed == IF text.t = "string" THEN JSONParse(text.s) ELSE [ok |-> FALSE] IN
  IF ~parsed.ok THEN SuccessResponse("html", "absent", text)
  ELSE IF parsed.value = Null
    THEN CatchResponse("htmlSimple", NullReadMessage("ingredients"))
  ELSE IF ~Truthy(parsed.value.ingredients) \/ ~Truthy(parsed.value.instructions)
    THEN CatchResponse("htmlSimple", UndefinedMapMessage)
  ELSE SuccessResponse("html", "absent", Str(SimpleHtml(parsed.value)))

\* part_003 120-150: the simple HTML variant after the model has answered
SimpleHtmlFinish(text) ==
  LET parsed == IF text.t = "string" THEN JSONParse(text.s) ELSE [ok |-> FALSE] IN
  IF ~parsed.ok THEN ErrorResponse("htmlSimple", 500, ParseMessage)
  ELSE IF parsed.value = Null
    THEN CatchResponse("htmlSimple", NullReadMessage("ingredients"))
  ELSE IF ~Truthy(parsed.value.ingredients) \/ ~Truthy(parsed.value.instructions)
    THEN CatchResponse("htmlSimple", UndefinedMapMessage)
  ELSE SuccessResponse("html", "absent", Str(SimpleHtml(parsed.value)))

\* part_003 315-382: the rich HTML variant once JSON.parse has returned
RichHtmlResponse(p, sourceUrl, value) ==
  IF value = Null THEN CatchResponse("htmlRich", NullReadMessage("images"))
  ELSE IF ~Truthy(value.ingredients) \/ ~Truthy(value.instructions)
    THEN CatchResponse("htmlRich", UndefinedMapMessage)
  ELSE SuccessResponse("html", "absent",
         Str(RichHtml(NormalizedRecipe(value, p, sourceUrl))))

\* part_003 300-382: the rich HTML variant after the model has answered
RichHtmlFinish(p, sourceUrl, text) ==
  IF ~Truthy(text) THEN ErrorResponse("htmlRich", 500, EmptyMessage)
  ELSE LET parsed == JSONParse(text.s) IN
    IF ~parsed.ok THEN ErrorResponse("htmlRich", 500, ParseMessage)
    ELSE RichHtmlResponse(p, sourceUrl, parsed.value)

\* what the handler sends once generateContent has resolved with `text`
Finish(v, p, b, text, elapsed) ==
  CASE v = "structured" -> StructuredFinish(p, b.url.s, text, elapsed)
    [] v = "htmlSimple" -> SimpleHtmlFinish(text)
    [] v = "htmlRich" -> RichHtmlFinish(p, b.url.s, text)
    [] v = "promptAnalysis" -> SuccessResponse("analysis", "absent", text)
    [] OTHER -> SuccessResponse("recipe", "absent", text)

\* ------------------------------------------------------------------------
\* Inputs: request bodies and the replies of the two collaborators
\* ------------------------------------------------------------------------

\* the request slots
Reqs == {"r1", "r2"}

RequestUrls ==
  { "https://www.tiktok.com/@chef/video/1",
    "https://www.youtube.com/watch?v=abc",
    "https://instagram.com/p/x",
    "https://example.com/recipe",
    "https://example.com:8443/recipe",
    "example.com/recipe" }

\* a request body, as far as the handler reads it: the value of the
\* variant's own URL field and, for promptAnalysis, the prompt
Bodies(v) ==
  { [url |-> u, prompt |-> q] :
      u \in {Undefined, Str("")} \cup {Str(x) : x \in RequestUrls},
      q \in IF v = "promptAnalysis"
            THEN {Undefined, Str("List the ingredients")} ELSE {Undefined} }

\* process.env.API_KEY
ApiKeys == {Undefined, Str(""), Str("secret")}

\* the JSON bodies an oEmbed endpoint answers with
OembedBodies ==
  { [t |-> "object", title |-> Str("Pasta"), author_name |-> Str("Chef")],
    [t |-> "object", title |-> Str("Pasta"), author_name |-> Undefined],
    [t |-> "object", title |-> Str(""), author_name |-> Str("Chef")],
    [t |-> "object", title |-> Undefined, author_name |-> Undefined],
    Null }

\* response.text of the model
ModelTexts ==
  { Undefined, Str(""), Str("Sorry, I cannot watch videos."), Str("null"),
    Str(RecipeTextPartial), Str(RecipeTextPlain), Str(RecipeTextImages) }

\* what generateContent rejects with: an Error (quota, service, network) or a
\* value that is not an Error
ModelErrors ==
  { [isError |-> TRUE, message |-> "429 quota exceeded"],
    [isError |-> TRUE, message |-> "fetch failed"],
    [isError |-> FALSE, message |-> "aborted"] }

\* error instanceof Error ? error.message : 'An unknown error occurred.'
errorMessage(error) ==
  IF error.isError THEN error.message ELSE "An unknown error occurred."

\* Date.now() - startTime, in milliseconds
ElapsedTimes == {1500}

\* ------------------------------------------------------------------------
\* State
\* ------------------------------------------------------------------------

VARIABLES
  variant,      \* which handler is deployed
  apiKey,       \* process.env.API_KEY
  pc,           \* per request: where the handler stands
  body,         \* per request: req.body
  platform,     \* per request: const platform ("unclassified" before)
  oembed,       \* per request: how the enrichment call settled
  videoTitle,   \* per request: let videoTitle
  videoAuthor,  \* per request: let videoAuthor
  genAI,        \* per request: how the model call settled
  oembedCalls,  \* per request: the URLs fetched
  modelCalls,   \* per request: the generateContent calls issued
  sent,         \* per request: the responses sent, in order
  cUrl,         \* classifier check: the input
  cTags,        \* classifier check: the tag of each classifier
  nPlatform,    \* normalization check: const platform
  nSource,      \* normalization check: sourceUrl
  nRecipe,      \* normalization check: the parsed answer of the model
  nOut,         \* normalization check: what the handlers make of it
  fData,        \* display check: the recipe data the component is given
  fOut,         \* display check: what the component computes
  app           \* the App component: its state and its pending handler calls

handlerVars ==
  << variant, apiKey, pc, body, platform, oembed, videoTitle, videoAuthor,
     genAI, oembedCalls, modelCalls, sent >>

normVars == << nPlatform, nSource, nRecipe, nOut >>

formatVars == << fData, fOut >>

pureVars == << cUrl, cTags, normVars, formatVars, app >>

vars == << handlerVars, pureVars >>

NoBody == [url |-> Undefined, prompt |-> Undefined]

InitRequests ==
  /\ pc = [r \in Reqs |-> "idle"]
  /\ body = [r \in Reqs |-> NoBody]
  /\ platform = [r \in Reqs |-> "unclassified"]
  /\ oembed = [r \in Reqs |-> [state |-> "none"]]
  /\ videoTitle = [r \in Reqs |-> ""]
  /\ videoAuthor = [r \in Reqs |-> ""]
  /\ genAI = [r \in Reqs |-> [state |-> "none"]]
  /\ oembedCalls = [r \in Reqs |-> <<>>]
  /\ modelCalls = [r \in Reqs |-> <<>>]
  /\ sent = [r \in Reqs |-> <<>>]

\* the three checks of pure functions, before they have an input
NoClassifierInput == cUrl = "" /\ cTags = [k \in {} |-> ""]

NoNormalizerInput ==
  /\ nPlatform = "unclassified"
  /\ nSource = ""
  /\ nRecipe = Undefined
  /\ nOut = Undefined

NoDisplayInput == fData = Undefined /\ fOut = Undefined

\* the server alone, no App component mounted
NoComponent == app = Undefined

Init ==
  /\ variant \in Variants
  /\ apiKey \in ApiKeys
  /\ InitRequests
  /\ NoClassifierInput
  /\ NoNormalizerInput
  /\ NoDisplayInput
  /\ NoComponent

\* ------------------------------------------------------------------------
\* The handler, one action per stretch between two awaits
\* ------------------------------------------------------------------------

\* a handler that checks the credential before the input
Entry_CredentialFirst(v, key, b) ==
  LET p == Classify(v, b.url.s)
      quiet == [platform |-> "unclassified", fetch |-> <<>>, call |-> <<>>]
  IN
  IF ApiKeyMissing(key)
  THEN quiet @@ [pc |-> "done", send |-> <<ErrorResponse(v, 500, ApiKeyMessage)>>]
  ELSE IF MissingInput(v, b)
  THEN quiet @@ [pc |-> "done",
                 send |-> <<ErrorResponse(v, 400, MissingInputMessage(v))>>]
  ELSE IF ClassifierThrows(v, b)
  THEN quiet @@ [pc |-> "threw", send |-> <<>>]
  ELSE IF RefusesInstagram(v) /\ p = "instagram"
  THEN [ pc |-> "done", platform |-> p, fetch |-> <<>>, call |-> <<>>,
         send |-> <<ErrorResponse(v, 400, InstagramMessage)>> ]
  ELSE IF RefusesUnknown(v) /\ p = "unknown"
  THEN [ pc |-> "done", platform |-> p, fetch |-> <<>>, call |-> <<>>,
         send |-> <<ErrorResponse(v, 400, UnknownMessage)>> ]
  ELSE IF FetchesOembed(v, p)
  THEN [ pc |-> "await_fetch", platform |-> p,
         fetch |-> <<OembedUrl(v, p, b.url.s)>>, call |-> <<>>, send |-> <<>> ]
  ELSE [ pc |-> "await_model", platform |-> p, fetch |-> <<>>,
         call |-> <<GenerateContentCall(v, p, PlainPrompt(v, p, b))>>,
         send |-> <<>> ]

\* what the handler has done when it reaches its first await or returns
Entry(v, key, b) ==
  LET p == Classify(v, b.url.s)
      quiet == [platform |-> "unclassified", fetch |-> <<>>, call |-> <<>>]
  IN
  IF MissingInput(v, b)
  THEN quiet @@ [pc |-> "done",
                 send |-> <<ErrorResponse(v, 400, MissingInputMessage(v))>>]
  ELSE IF ApiKeyMissing(key)
  THEN quiet @@ [pc |-> "done", send |-> <<ErrorResponse(v, 500, ApiKeyMessage)>>]
  ELSE IF ClassifierThrows(v, b)
  THEN quiet @@ [pc |-> "threw", send |-> <<>>]
  ELSE IF RefusesInstagram(v) /\ p = "instagram"
  THEN [ pc |-> "done", platform |-> p, fetch |-> <<>>, call |-> <<>>,
         send |-> <<ErrorResponse(v, 400, InstagramMessage)>> ]
  ELSE IF RefusesUnknown(v) /\ p = "unknown"
  THEN [ pc |-> "done", platform |-> p, fetch |-> <<>>, call |-> <<>>,
         send |-> <<ErrorResponse(v, 400, UnknownMessage)>> ]
  ELSE IF FetchesOembed(v, p)
  THEN [ pc |-> "await_fetch", platform |-> p,
         fetch |-> <<OembedUrl(v, p, b.url.s)>>, call |-> <<>>, send |-> <<>> ]
  ELSE [ pc |-> "await_model", platform |-> p, fetch |-> <<>>,
         call |-> <<GenerateContentCall(v, p, PlainPrompt(v, p, b))>>,
         send |-> <<>> ]

\* app.post('/analyze', async (req, res) => { ... up to the first await
Receive(r, b) ==
  /\ pc[r] = "idle"
  /\ LET e == Entry(variant, apiKey, b) IN
       /\ pc' = [pc EXCEPT ![r] = e.pc]
       /\ body' = [body EXCEPT ![r] = b]
       /\ platform' = [platform EXCEPT ![r] = e.platform]
       /\ oembedCalls' = [oembedCalls EXCEPT ![r] = @ \o e.fetch]
       /\ modelCalls' = [modelCalls EXCEPT ![r] = @ \o e.call]
       /\ sent' = [sent EXCEPT ![r] = @ \o e.send]
  /\ UNCHANGED <<variant, apiKey, oembed, videoTitle, videoAuthor, genAI, pureVars>>

\* the code after the oEmbed try/catch: build the prompt, call the model
AfterOembed(r, outcome, title, author) ==
  /\ oembed' = [oembed EXCEPT ![r] = outcome]
  /\ videoTitle' = [videoTitle EXCEPT ![r] = title]
  /\ videoAuthor' = [videoAuthor EXCEPT ![r] = author]
  /\ modelCalls' = [modelCalls EXCEPT ![r] =
       Append(@, GenerateContentCall(variant, platform[r],
                   VideoPrompt(variant, platform[r], title, author, body[r].url.s)))]
  /\ pc' = [pc EXCEPT ![r] = "await_model"]
  /\ UNCHANGED <<variant, apiKey, body, platform, genAI, oembedCalls, sent, pureVars>>

\* a handler that fetches again when the fetch rejects
OembedFetchRejects_Retries(r) ==
  /\ pc[r] = "await_fetch"
  /\ oembedCalls' = [oembedCalls EXCEPT ![r] = Append(@, Head(@))]
  /\ UNCHANGED <<variant, apiKey, pc, body, platform, oembed, videoTitle,
                 videoAuthor, genAI, modelCalls, sent, pureVars>>

\* await fetch(oembedUrl) rejects: caught by the inner catch
OembedFetchRejects(r) ==
  /\ pc[r] = "await_fetch"
  /\ AfterOembed(r, [state |-> "fetch_rejected"], "", "")

\* a non-OK status that aborts the request
OembedNotOk_Aborts(r) ==
  /\ pc[r] = "await_fetch"
  /\ oembed' = [oembed EXCEPT ![r] = [state |-> "not_ok"]]
  /\ sent' = [sent EXCEPT ![r] =
       Append(@, CatchResponse(variant, "oEmbed request failed"))]
  /\ pc' = [pc EXCEPT ![r] = "done"]
  /\ UNCHANGED <<variant, apiKey, body, platform, videoTitle, videoAuthor, genAI,
                 oembedCalls, modelCalls, pureVars>>

\* await fetch(oembedUrl) resolves with a non-OK status
OembedNotOk(r) ==
  /\ pc[r] = "await_fetch"
  /\ AfterOembed(r, [state |-> "not_ok"], "", "")

\* a handler that calls the model while the oEmbed body is still being read
OembedOk_StartsModel(r) ==
  /\ pc[r] = "await_fetch"
  /\ pc' = [pc EXCEPT ![r] = "await_json"]
  /\ modelCalls' = [modelCalls EXCEPT ![r] =
       Append(@, GenerateContentCall(variant, platform[r],
                   VideoPrompt(variant, platform[r], "", "", body[r].url.s)))]
  /\ UNCHANGED <<variant, apiKey, body, platform, oembed, videoTitle, videoAuthor,
                 genAI, oembedCalls, sent, pureVars>>

\* await fetch(oembedUrl) resolves with an OK status: the handler awaits
\* oembedResponse.json()
OembedOk(r) ==
  /\ pc[r] = "await_fetch"
  /\ pc' = [pc EXCEPT ![r] = "await_json"]
  /\ UNCHANGED <<variant, apiKey, body, platform, oembed, videoTitle, videoAuthor,
                 genAI, oembedCalls, modelCalls, sent, pureVars>>

\* await oembedResponse.json() rejects (the body is not JSON)
OembedJsonRejects(r) ==
  /\ pc[r] = "await_json"
  /\ AfterOembed(r, [state |-> "json_rejected"], "", "")

\* await oembedResponse.json() resolves; reading .title of null throws into
\* the inner catch
OembedJsonResolves(r, data) ==
  /\ pc[r] = "await_json"
  /\ IF data = Null
     THEN AfterOembed(r, [state |-> "ok", data |-> data], "", "")
     ELSE AfterOembed(r, [state |-> "ok", data |-> data],
                      OrEmpty(data.title), OrEmpty(data.author_name))

\* a handler that answers a failed model call with a canned success body
ModelRejects_Fallback(r, error) ==
  /\ pc[r] = "await_model"
  /\ genAI' = [genAI EXCEPT ![r] = [state |-> "rejected", error |-> error]]
  /\ sent' = [sent EXCEPT ![r] =
       Append(@, SuccessResponse("recipe", "absent", Str("No recipe found.")))]
  /\ pc' = [pc EXCEPT ![r] = "done"]
  /\ UNCHANGED <<variant, apiKey, body, platform, oembed, videoTitle, videoAuthor,
                 oembedCalls, modelCalls, pureVars>>

\* await ai.models.generateContent(...) rejects: the outer catch answers
ModelRejects(r, error) ==
  /\ pc[r] = "await_model"
  /\ genAI' = [genAI EXCEPT ![r] = [state |-> "rejected", error |-> error]]
  /\ sent' = [sent EXCEPT ![r] =
       Append(@, CatchResponse(variant, errorMessage(error)))]
  /\ pc' = [pc EXCEPT ![r] = "done"]
  /\ UNCHANGED <<variant, apiKey, body, platform, oembed, videoTitle, videoAuthor,
                 oembedCalls, modelCalls, pureVars>>

\* a handler whose platform tag is a module-level variable: the response is
\* built with the tag of the request that was classified last
ModelResolves_SharedPlatform(r, text, elapsed) ==
  /\ pc[r] = "await_model"
  /\ genAI' = [genAI EXCEPT ![r] = [state |-> "resolved", text |-> text]]
  /\ sent' = [sent EXCEPT ![r] =
       LET others == {q \in Reqs : q # r /\ platform[q] # "unclassified"}
           p == IF others = {} THEN platform[r]
                ELSE platform[CHOOSE q \in others : TRUE]
       IN  Append(@, Finish(variant, p, body[r], text, elapsed))]
  /\ pc' = [pc EXCEPT ![r] = "done"]
  /\ UNCHANGED <<variant, apiKey, body, platform, oembed, videoTitle, videoAuthor,
                 oembedCalls, modelCalls, pureVars>>

\* a handler that sends what it has and then the error of a failed parse
ModelResolves_SendsTwice(r, text, elapsed) ==
  /\ pc[r] = "await_model"
  /\ genAI' = [genAI EXCEPT ![r] = [state |-> "resolved", text |-> text]]
  /\ sent' = [sent EXCEPT ![r] =
       LET m == Finish(variant, platform[r], body[r], text, elapsed)
       IN  IF m.status = 200 THEN Append(@, m)
           ELSE @ \o <<SuccessResponse("recipe", "absent", text), m>>]
  /\ pc' = [pc EXCEPT ![r] = "done"]
  /\ UNCHANGED <<variant, apiKey, body, platform, oembed, videoTitle, videoAuthor,
                 oembedCalls, modelCalls, pureVars>>

\* await ai.models.generateContent(...) resolves: the rest of the handler
ModelResolves(r, text, elapsed) ==
  /\ pc[r] = "await_model"
  /\ genAI' = [genAI EXCEPT ![r] = [state |-> "resolved", text |-> text]]
  /\ sent' = [sent EXCEPT ![r] =
       Append(@, Finish(variant, platform[r], body[r], text, elapsed))]
  /\ pc' = [pc EXCEPT ![r] = "done"]
  /\ UNCHANGED <<variant, apiKey, body, platform, oembed, videoTitle, videoAuthor,
                 oembedCalls, modelCalls, pureVars>>

\* the steps of the handler of one request, its body and the replies of the
\* collaborators drawn from the given sets
HandleAmong(r, bodies, datas, errors, texts) ==
  \/ \E b \in bodies : Receive(r, b)
  \/ OembedFetchRejects(r)
  \/ OembedNotOk(r)
  \/ OembedOk(r)
  \/ OembedJsonRejects(r)
  \/ \E data \in datas : OembedJsonResolves(r, data)
  \/ \E error \in errors : ModelRejects(r, error)
  \/ \E text \in texts, elapsed \in ElapsedTimes :
       ModelResolves(r, text, elapsed)

\* the steps of the handler of one request
Handle(r) == HandleAmong(r, Bodies(variant), OembedBodies, ModelErrors, ModelTexts)

\* one request, from its arrival to its response
Next == Handle("r1")

Spec == Init /\ [][Next]_vars

\* ------------------------------------------------------------------------
\* The classifier as a pure function: inputs drawn from concatenations of
\* at most MaxParts pieces, every classifier applied to the input
\* ------------------------------------------------------------------------

UrlPieces ==
  { "https://", "tiktok.com", "youtube.com", "youtu.be", "instagram.com",
    "example.com", "/p/x", "tiktok", ".com", "TikTok.com", "youtu", ".be" }

RECURSIVE Concatenations(_)
Concatenations(n) ==
  IF n = 0 THEN {""}
  ELSE LET shorter == Concatenations(n - 1)
       IN  shorter \cup {x \o y : x \in shorter, y \in UrlPieces}

ClassifierInputs == Concatenations(MaxParts)

Classifiers == {"getPlatform", "getPlatformInstagram", "getPlatformUnknown"}

InitPlatform ==
  /\ variant = "structured"
  /\ apiKey = Str("secret")
  /\ InitRequests
  /\ cUrl \in ClassifierInputs
  /\ cTags = [k \in {} |-> ""]
  /\ NoNormalizerInput
  /\ NoDisplayInput
  /\ NoComponent

\* const platform = getPlatform(url), for each of the three classifiers
ClassifyUrl ==
  /\ DOMAIN cTags = {}
  /\ cTags' = [k \in Classifiers |->
                 CASE k = "getPlatform" -> getPlatform(cUrl)
                   [] k = "getPlatformInstagram" -> getPlatformInstagram(cUrl)
                   [] k = "getPlatformUnknown" -> getPlatformUnknown(cUrl)]
  /\ UNCHANGED <<handlerVars, cUrl, normVars, formatVars, app>>

NextPlatform == ClassifyUrl

SpecPlatform == InitPlatform /\ [][NextPlatform]_vars

Classified == DOMAIN cTags = Classifiers

HasTiktok == Includes(cUrl, "tiktok.com")
HasYoutube == Includes(cUrl, "youtube.com") \/ Includes(cUrl, "youtu.be")
HasInstagram == Includes(cUrl, "instagram.com")

\* C1: a URL that contains "tiktok.com" is tagged tiktok by every classifier,
\* whatever other platform substrings it contains.
C1_TiktokWins ==
  (Classified /\ HasTiktok) => \A k \in Classifiers : cTags[k] = "tiktok"

C1_Witness ==
  Classified /\ HasTiktok /\ HasYoutube /\ cTags["getPlatformInstagram"] = "tiktok"

\* C2 as stated: a URL with none of the four platform substrings is tagged
\* website by every classifier.
C2_Original ==
  (Classified /\ ~HasTiktok /\ ~HasYoutube /\ ~HasInstagram)
    => \A k \in Classifiers : cTags[k] = "website"

\* C2 amended: such a URL is tagged website by the three-tag and four-tag
\* classifiers, and unknown by the stricter classifier of the videoUrl variant.
C2_FallbackTag ==
  (Classified /\ ~HasTiktok /\ ~HasYoutube /\ ~HasInstagram)
    => /\ cTags["getPlatform"] = "website"
       /\ cTags["getPlatformInstagram"] = "website"
       /\ cTags["getPlatformUnknown"] = "unknown"

C2_Witness ==
  /\ Classified /\ ~HasTiktok /\ ~HasYoutube /\ ~HasInstagram
  /\ Includes(cUrl, "example.com")
  /\ cTags["getPlatformUnknown"] = "unknown"

\* C3 as stated: a URL with "instagram.com" and neither tiktok nor youtube
\* substring is tagged instagram, and one with a youtube substring and
\* "instagram.com" (and no "tiktok.com") is tagged youtube, by every classifier.
C3_Original ==
  /\ (Classified /\ HasInstagram /\ ~HasTiktok /\ ~HasYoutube)
       => \A k \in Classifiers : cTags[k] = "instagram"
  /\ (Classified /\ HasInstagram /\ HasYoutube /\ ~HasTiktok)
       => \A k \in Classifiers : cTags[k] = "youtube"

\* C3 amended: the classifiers that have the instagram check (four-tag and
\* stricter) tag an instagram-only URL instagram, the three-tag classifier of
\* the structured and rich HTML variants tags it website; a URL with a youtube
\* substring and "instagram.com" (and no "tiktok.com") is tagged youtube by
\* every classifier.
C3_PriorityOrder ==
  /\ (Classified /\ HasInstagram /\ ~HasTiktok /\ ~HasYoutube)
       => /\ cTags["getPlatformInstagram"] = "instagram"
          /\ cTags["getPlatformUnknown"] = "instagram"
          /\ cTags["getPlatform"] = "website"
  /\ (Classified /\ HasInstagram /\ HasYoutube /\ ~HasTiktok)
       => \A k \in Classifiers : cTags[k] = "youtube"

C3_Witness ==
  /\ Classified /\ HasInstagram /\ HasYoutube /\ ~HasTiktok
  /\ cTags["getPlatformInstagram"] = "youtube"

\* ------------------------------------------------------------------------
\* Claims about the handler (specification Spec)
\* ------------------------------------------------------------------------

NoOutboundCall(r) == oembedCalls[r] = <<>> /\ modelCalls[r] = <<>>

\* exactly one response was sent, an error body with this status
AnsweredError(r, status) ==
  /\ Len(sent[r]) = 1
  /\ sent[r][1].status = status
  /\ sent[r][1].body.kind = "error"
  /\ sent[r][1].body.error # ""

EnrichmentFailed(r) ==
  \/ oembed[r].state \in {"fetch_rejected", "not_ok", "json_rejected"}
  \/ (oembed[r].state = "ok" /\ oembed[r].data = Null)

EnrichedWithBoth(r) ==
  /\ oembed[r].state = "ok"
  /\ oembed[r].data # Null
  /\ Truthy(oembed[r].data.title)
  /\ Truthy(oembed[r].data.author_name)

IsVideoRequest(r) ==
  \/ platform[r] \in {"tiktok", "youtube"}
  \/ variant \in {"tiktokRaw", "tiktokOembed"}

\* C4: when the oEmbed call of a video request fails (fetch rejects, the
\* status is not OK, or the body is not JSON), the handler still calls the
\* model, with a prompt that has no titled/by-author clause, and no response
\* is sent before the model call has settled.
C4_EnrichmentFailureNotFatal ==
  \A r \in Reqs :
    EnrichmentFailed(r) =>
      /\ Len(modelCalls[r]) = 1
      /\ ~Includes(modelCalls[r][1].contents, "titled \"")
      /\ ~Includes(modelCalls[r][1].contents, "by author \"")
      /\ (sent[r] # <<>> => genAI[r].state # "none")

C4_Witness ==
  \E r \in Reqs :
    /\ oembed[r].state = "json_rejected"
    /\ platform[r] = "youtube"
    /\ Len(modelCalls[r]) = 1
    /\ Len(sent[r]) = 1 /\ sent[r][1].status = 200

\* C5: the prompt of a video request contains the clause
\* titled "<title>" by author "<author_name>" exactly when the oEmbed call
\* returned OK with both fields non-empty, and it always contains the
\* request's URL.
C5_TitleAuthorClause ==
  \A r \in Reqs :
    (IsVideoRequest(r) /\ modelCalls[r] # <<>>) =>
      LET prompt == modelCalls[r][1].contents IN
      /\ EnrichedWithBoth(r) =>
           Includes(prompt, "titled \"" \o oembed[r].data.title.s
                            \o "\" by author \"" \o oembed[r].data.author_name.s
                            \o "\"")
      /\ ~EnrichedWithBoth(r) =>
           ~Includes(prompt, "titled \"") /\ ~Includes(prompt, "by author \"")
      /\ Includes(prompt, body[r].url.s)

C5_Witness ==
  \E r \in Reqs :
    /\ variant = "structured"
    /\ body[r].url = Str("https://www.youtube.com/watch?v=abc")
    /\ EnrichedWithBoth(r)
    /\ Len(modelCalls[r]) = 1
    /\ Includes(modelCalls[r][1].contents, "titled \"Pasta\" by author \"Chef\"")
    /\ Includes(modelCalls[r][1].contents, "https://www.youtube.com/watch?v=abc")

\* the variants that restrict Instagram
InstagramRestricting == {"multiRaw", "htmlSimple"}

\* C6: in a variant that restricts Instagram, a request the handler has
\* classified instagram is answered with HTTP 400 and a message about the
\* unsupported platform, and neither oEmbed nor the model is called for it.
C6_InstagramRefused ==
  \A r \in Reqs :
    (variant \in InstagramRestricting /\ platform[r] = "instagram") =>
      /\ AnsweredError(r, 400)
      /\ Includes(sent[r][1].body.error, "Instagram is not supported")
      /\ NoOutboundCall(r)
      /\ pc[r] = "done"

C6_Witness ==
  \E r \in Reqs :
    /\ variant = "htmlSimple"
    /\ body[r].url = Str("https://instagram.com/p/x")
    /\ platform[r] = "instagram"
    /\ AnsweredError(r, 400)

\* C7: a request whose body lacks the URL field, or has it empty, is
\* answered with HTTP 400 and an error message, and no outbound call is made.
C7_MissingUrlRejected ==
  \A r \in Reqs :
    (pc[r] # "idle" /\ (body[r].url = Undefined \/ body[r].url = Str(""))) =>
      /\ AnsweredError(r, 400)
      /\ Includes(sent[r][1].body.error, "Missing")
      /\ NoOutboundCall(r)
      /\ pc[r] = "done"

C7_Witness ==
  \E r \in Reqs :
    /\ pc[r] = "done"
    /\ body[r].url = Str("")
    /\ apiKey = Str("secret")
    /\ AnsweredError(r, 400)

CredentialAbsent == apiKey = Undefined \/ apiKey = Str("")

\* C8 as stated: without API_KEY a request with a URL is answered with HTTP
\* 500 and no oEmbed or model call is issued for it.
C8_Original ==
  \A r \in Reqs :
    (CredentialAbsent /\ pc[r] # "idle" /\ Truthy(body[r].url)) =>
      /\ AnsweredError(r, 500)
      /\ NoOutboundCall(r)

\* C8 amended: without API_KEY a request that carries the URL (and, in the
\* variant that also requires a prompt, the prompt) is answered with HTTP 500
\* and no oEmbed or model call is issued for it; a request of that variant
\* with a URL and no prompt is answered with HTTP 400, also without any call.
C8_CredentialCheckedFirst ==
  \A r \in Reqs :
    (CredentialAbsent /\ pc[r] # "idle" /\ Truthy(body[r].url)) =>
      /\ NoOutboundCall(r)
      /\ pc[r] = "done"
      /\ IF variant = "promptAnalysis" /\ ~Truthy(body[r].prompt)
         THEN AnsweredError(r, 400)
         ELSE AnsweredError(r, 500) /\ Includes(sent[r][1].body.error, "API_KEY")

C8_Witness ==
  \E r \in Reqs :
    /\ apiKey = Str("")
    /\ body[r].url = Str("https://www.tiktok.com/@chef/video/1")
    /\ AnsweredError(r, 500)
    /\ NoOutboundCall(r)

ModelAnswered(r) == genAI[r].state = "resolved"

\* C9 as stated: when the model returns no text, the request is answered
\* with HTTP 500 and an empty-response error that is not the parse-failure
\* error, never with a success body.
C9_EmptyResponseIs500 ==
  \A r \in Reqs :
    (ModelAnswered(r) /\ ~Truthy(genAI[r].text)) =>
      /\ AnsweredError(r, 500)
      /\ Includes(sent[r][1].body.error, "The response was empty")
      /\ ~Includes(sent[r][1].body.error, "Failed to parse")

NotJson(r) ==
  /\ ModelAnswered(r)
  /\ Truthy(genAI[r].text)
  /\ ~JSONParse(genAI[r].text.s).ok

\* C10 as stated: when the model's text is not valid JSON the request is
\* answered with HTTP 500 and an error body, never with a success body.
C10_Original ==
  \A r \in Reqs : NotJson(r) => AnsweredError(r, 500)

\* the variants that parse the model's text on the server
ParsingVariants == {"structured", "htmlSimple", "htmlRich"}

\* C10 amended: in the variants that parse the model's text on the server
\* (structured, simple HTML, rich HTML), text that is not valid JSON is
\* answered with exactly one response, HTTP 500 with the format error; the
\* raw variants pass the text on in a success body without parsing it.
C10_FormatError ==
  \A r \in Reqs :
    NotJson(r) =>
      IF variant \in ParsingVariants
      THEN /\ AnsweredError(r, 500)
           /\ Includes(sent[r][1].body.error, "The format was invalid")
           /\ pc[r] = "done"
      ELSE /\ Len(sent[r]) = 1
           /\ sent[r][1].status = 200
           /\ sent[r][1].body.payload = genAI[r].text

C10_Witness ==
  \E r \in Reqs :
    /\ variant = "structured"
    /\ NotJson(r)
    /\ AnsweredError(r, 500)
    /\ Includes(sent[r][1].body.error, "The format was invalid")

\* C11: when the model call itself fails (generateContent rejects), the
\* request is answered with exactly one response, HTTP 500 with an error body
\* that carries the handler's failure prefix and the error's message, and no
\* success body is sent.
C11_ModelFailureIs500 ==
  \A r \in Reqs :
    genAI[r].state = "rejected" =>
      /\ AnsweredError(r, 500)
      /\ sent[r][1].body.payload = Undefined
      /\ StartsWith(sent[r][1].body.error,
                    IF variant = "promptAnalysis"
                    THEN "Failed to analyze video. " ELSE "Failed to get recipe. ")
      /\ genAI[r].error.isError => Includes(sent[r][1].body.error, genAI[r].error.message)
      /\ pc[r] = "done"

C11_Witness ==
  \E r \in Reqs :
    /\ variant = "multiRaw"
    /\ genAI[r].state = "rejected"
    /\ genAI[r].error.message = "429 quota exceeded"
    /\ oembed[r].state = "ok"
    /\ AnsweredError(r, 500)
    /\ sent[r][1].body.error = "Failed to get recipe. 429 quota exceeded"

\* ------------------------------------------------------------------------
\* Response normalization as a pure function: the code that follows
\* JSON.parse in the structured and the rich HTML handler, applied to recipes
\* whose image list has at most MaxImages entries and whose free-text fields
\* are drawn from NumericTexts
\* ------------------------------------------------------------------------

NormalizerSources ==
  { "https://example.com/recipe",
    "https://cook.example.org/blog/pasta?ref=1",
    "example.com/recipe",
    "https://www.youtube.com/watch?v=abc" }

\* the images a model answer is made of
ImagePool ==
  { Image("/img/x.jpg", "step one", "step"),
    Image("img/y.jpg", "plated", "additional"),
    Image("//cdn.example.com/z.png", "close-up", "step"),
    Image("https://cdn.example.com/main.jpg", "the dish", "main"),
    Image("http://cdn.example.com", "banner", "main"),
    Image("", "blank", "additional"),
    Image("https://", "broken", "main") }

RECURSIVE ImageLists(_)
ImageLists(n) ==
  IF n = 0 THEN {<<>>}
  ELSE LET shorter == ImageLists(n - 1)
       IN  shorter \cup {Append(l, image) : l \in shorter, image \in ImagePool}

\* recipe.images: absent, null, or a list
ImageFields == {Undefined, Null} \cup {Arr(l) : l \in ImageLists(MaxImages)}

\* recipe.prepTime, cookTime, totalTime, servings
NumericTexts ==
  { Undefined, Str(""), Str("15 minutes"), Str("1 hour 30 minutes"),
    Str("serves four"), Str("about 20 min"), Str("1.5 hours"),
    Str("10-15 minutes") }

NormalizerRecipes ==
  { RecipeObject(Str("15 minutes"), Undefined, Str("45 minutes"), Str("4 servings"),
                 Arr(<<"200g spaghetti">>), Arr(<<"Boil">>), images) :
      images \in ImageFields }

NumericRecipes ==
  { RecipeObject(prepTime, cookTime, totalTime, servings,
                 Arr(<<"200g spaghetti">>), Arr(<<"Boil">>), Undefined) :
      prepTime \in NumericTexts, cookTime \in NumericTexts,
      totalTime \in NumericTexts, servings \in NumericTexts }

InitNormalize ==
  /\ variant = "structured"
  /\ apiKey = Str("secret")
  /\ InitRequests
  /\ NoClassifierInput
  /\ NoDisplayInput
  /\ NoComponent
  /\ \/ nSource \in NormalizerSources /\ nRecipe \in NormalizerRecipes
     \/ nSource = "https://example.com/recipe" /\ nRecipe \in NumericRecipes
  /\ nPlatform = getPlatform(nSource)
  /\ nOut = Undefined

\* the statements between JSON.parse and the response, in both handlers
Normalize ==
  /\ nOut = Undefined
  /\ LET recipe == NormalizedRecipe(nRecipe, nPlatform, nSource) IN
     nOut' = [ t |-> "object",
               mapped |-> IF Truthy(nRecipe.images) /\ nPlatform = "website"
                          THEN MapImages(nRecipe.images.a, nSource) ELSE <<>>,
               images |-> recipe.images,
               main |-> mainImage(recipe),
               structured |-> StructuredResponse(nPlatform, nSource, nRecipe, 1500),
               rich |-> RichHtmlResponse(nPlatform, nSource, nRecipe) ]
  /\ UNCHANGED <<handlerVars, cUrl, cTags, nPlatform, nSource, nRecipe, formatVars, app>>

NextNormalize == Normalize

SpecNormalize == InitNormalize /\ [][NextNormalize]_vars

Normalized == nOut # Undefined

\* the website branch has run over a list of images
ImagesNormalized == Normalized /\ nPlatform = "website" /\ Truthy(nRecipe.images)

\* scheme and host of the source URLs that are absolute
SourceOrigin(source) ==
  CASE source = "https://example.com/recipe" -> "https://example.com"
    [] source = "https://cook.example.org/blog/pasta?ref=1" -> "https://cook.example.org"
    [] source = "https://www.youtube.com/watch?v=abc" -> "https://www.youtube.com"
    [] OTHER -> ""

\* an image URL that is absolute on its own: scheme, "//" and a host
AbsoluteImageUrl(url) ==
  \/ StartsWith(url, "https://") /\ Len(url) > Len("https://")
  \/ StartsWith(url, "http://") /\ Len(url) > Len("http://")

\* a path-absolute reference: "/..." but not "//..."
RootRelative(url) == StartsWith(url, "/") /\ ~StartsWith(url, "//")

Unresolvable(image) ==
  \/ image.url = Str("")
  \/ image.url = Str("https://")
  \/ SourceOrigin(nSource) = ""

Descriptions(images) == [i \in 1..Len(images) |-> images[i].description]

SomeImageDropped ==
  /\ ImagesNormalized
  /\ \E i \in 1..Len(nRecipe.images.a) : Unresolvable(nRecipe.images.a[i])

\* C13 as stated: whenever an image is dropped, the request still ends in a
\* success response (in the structured and in the rich HTML handler).
C13_Original ==
  SomeImageDropped =>
    /\ nOut.structured.status = 200
    /\ nOut.rich.status = 200

\* C13 amended: an image whose URL is empty or cannot be resolved is dropped
\* and every other image is kept, in the original order, with description
\* and category untouched; the rich HTML handler still answers with a success
\* response, and so does the structured handler when the source URL itself is
\* an absolute URL (when it is not, every image is dropped and the handler
\* answers HTTP 500 on deriving the host).
C13_UnresolvableImagesDropped ==
  ImagesNormalized =>
    LET in == nRecipe.images.a
        kept == SelectSeq(in, LAMBDA image : ~Unresolvable(image))
    IN  /\ \A i \in 1..Len(in) : Unresolvable(in[i]) <=> nOut.mapped[i] = Null
        /\ Len(nOut.images.a) = Len(kept)
        /\ Descriptions(nOut.images.a) = Descriptions(kept)
        /\ \A j \in 1..Len(kept) : nOut.images.a[j].category = kept[j].category
        /\ nOut.rich.status = 200
        /\ nOut.rich.body.kind = "html"
        /\ IF SourceOrigin(nSource) # ""
           THEN nOut.structured.status = 200 /\ nOut.structured.body.kind = "data"
           ELSE /\ nOut.images.a = <<>>
                /\ nOut.structured.status = 500
                /\ nOut.structured.body.error = "Failed to get recipe. Invalid URL"

C13_Witness ==
  /\ ImagesNormalized
  /\ nSource = "https://example.com/recipe"
  /\ Descriptions(nRecipe.images.a) = <<Str("broken"), Str("step one"), Str("blank")>>
  /\ Descriptions(nOut.images.a) = <<Str("step one")>>
  /\ nOut.structured.status = 200
  /\ nOut.rich.status = 200

\* the integer value of the first run of decimal digits of the texts of the
\* model, 0 for a text without a digit and for an absent field
FirstDigitRun(text) ==
  CASE text = Str("15 minutes") -> 15
    [] text = Str("1 hour 30 minutes") -> 1
    [] text = Str("about 20 min") -> 20
    [] text = Str("1.5 hours") -> 1
    [] text = Str("10-15 minutes") -> 10
    [] text = Str("45 minutes") -> 45
    [] text = Str("4 servings") -> 4
    [] text = Str("serves four") -> 0
    [] text = Str("") -> 0
    [] text = Undefined -> 0

\* C14: prep_time, cook_time, total_time and yields of a success response
\* of the structured handler are the integer value of the first run of
\* decimal digits of prepTime, cookTime, totalTime and servings ("15 minutes"
\* -> 15, "1 hour 30 minutes" -> 1), and 0 when the field is absent, empty or
\* has no digit.
C14_NumericFields ==
  (Normalized /\ nOut.structured.status = 200) =>
    LET data == nOut.structured.body.payload.data IN
    /\ data.prep_time = FirstDigitRun(nRecipe.prepTime)
    /\ data.cook_time = FirstDigitRun(nRecipe.cookTime)
    /\ data.total_time = FirstDigitRun(nRecipe.totalTime)
    /\ data.yields = FirstDigitRun(nRecipe.servings)

C14_Witness ==
  /\ Normalized
  /\ nRecipe.prepTime = Str("15 minutes")
  /\ nRecipe.cookTime = Str("1 hour 30 minutes")
  /\ nRecipe.totalTime = Undefined
  /\ nRecipe.servings = Str("serves four")
  /\ nOut.structured.status = 200
  /\ nOut.structured.body.payload.data.prep_time = 15
  /\ nOut.structured.body.payload.data.cook_time = 1
  /\ nOut.structured.body.payload.data.total_time = 0
  /\ nOut.structured.body.payload.data.yields = 0

\* the image list main-image selection runs on ("absent" covers undefined
\* and null)
SelectionList == IF Truthy(nOut.images) THEN nOut.images.a ELSE <<>>

\* C15: the main image is the first entry of the image list whose category
\* is 'main'; without such an entry it is the first entry of the list; for an
\* empty or absent list it is null; data.image of the structured response is
\* its URL (null when there is no main image or its URL is empty).
C15_MainImage ==
  Normalized =>
    LET list == SelectionList
        mains == {k \in 1..Len(list) : list[k].category = Str("main")}
    IN  /\ list = <<>> => nOut.main = Null
        /\ (list # <<>> /\ mains = {}) => nOut.main = list[1]
        /\ mains # {} =>
             \E i \in mains :
               /\ nOut.main = list[i]
               /\ \A k \in mains : i <= k
        /\ nOut.structured.status = 200 =>
             nOut.structured.body.payload.data.image =
               IF nOut.main = Null \/ nOut.main.url = Str("")
               THEN Null ELSE nOut.main.url

C15_Witness ==
  /\ Normalized
  /\ nSource = "https://example.com/recipe"
  /\ Descriptions(SelectionList) = <<Str("step one"), Str("the dish"), Str("banner")>>
  /\ nOut.main.description = Str("the dish")
  /\ nOut.structured.body.payload.data.image = Str("https://cdn.example.com/main.jpg")

\* ------------------------------------------------------------------------
\* The recipe display (part_000): formatTime and the summary list
\* ------------------------------------------------------------------------

\* String.prototype.trim, for the space character
RECURSIVE Trim(_)
Trim(s) ==
  IF s = "" THEN ""
  ELSE IF SubSeq(s, 1, 1) = " " THEN Trim(SubSeq(s, 2, Len(s)))
  ELSE IF SubSeq(s, Len(s), Len(s)) = " " THEN Trim(SubSeq(s, 1, Len(s) - 1))
  ELSE s

\* a formatter that always prints the minutes part
formatTime_KeepsZeroMinutes(minutes) ==
  IF minutes = 0 \/ minutes <= 0 THEN Null
  ELSE IF minutes < 60 THEN Str(ToString(minutes) \o " min")
  ELSE Str(ToString(minutes \div 60) \o "h " \o ToString(minutes % 60) \o "m")

\* if (!minutes || minutes <= 0) return null;
\* if (minutes < 60) return `${minutes} min`;
\* return `${hours}h ${mins > 0 ? `${mins}m` : ''}`.trim()
formatTime(minutes) ==
  IF minutes = 0 \/ minutes <= 0 THEN Null
  ELSE IF minutes < 60 THEN Str(ToString(minutes) \o " min")
  ELSE LET hours == minutes \div 60
           mins == minutes % 60
       IN  Str(Trim(ToString(hours) \o "h "
                    \o (IF mins > 0 THEN ToString(mins) \o "m" ELSE "")))

\* recipe.yields > 0 ? `${recipe.yields} servings` : null
yieldsText(yields) ==
  IF yields > 0 THEN Str(ToString(yields) \o " servings") ELSE Null

\* [{label, value}, ...].filter(item => item.value)
summaryItems(recipe) ==
  SelectSeq(<< [label |-> "Prep Time", value |-> formatTime(recipe.prep_time)],
               [label |-> "Cook Time", value |-> formatTime(recipe.cook_time)],
               [label |-> "Total Time", value |-> formatTime(recipe.total_time)],
               [label |-> "Yields", value |-> yieldsText(recipe.yields)] >>,
            LAMBDA item : Truthy(item.value))

\* recipe.prep_time, cook_time, total_time, yields of the props
DisplayData ==
  [ t : {"object"},
    prep_time : (0 - MaxMinutes)..MaxMinutes,
    cook_time : {0, 45, 60},
    total_time : {-1, 75},
    yields : {0, 4} ]

InitFormat ==
  /\ variant = "structured"
  /\ apiKey = Str("secret")
  /\ InitRequests
  /\ NoClassifierInput
  /\ NoNormalizerInput
  /\ NoComponent
  /\ fData \in DisplayData
  /\ fOut = Undefined

\* RecipeDisplay, up to the summary list
Render ==
  /\ fOut = Undefined
  /\ fOut' = [ t |-> "object",
               prepTime |-> formatTime(fData.prep_time),
               cookTime |-> formatTime(fData.cook_time),
               totalTime |-> formatTime(fData.total_time),
               yields |-> yieldsText(fData.yields),
               summaryItems |-> summaryItems(fData) ]
  /\ UNCHANGED <<handlerVars, cUrl, cTags, normVars, fData, app>>

NextFormat == Render

SpecFormat == InitFormat /\ [][NextFormat]_vars

Rendered == fOut # Undefined

Labels(items) == [i \in 1..Len(items) |-> items[i].label]

\* C16: formatTime(minutes) is no value for minutes <= 0, "<m> min" for
\* 1 <= minutes < 60, and "<h>h <m>m" for minutes >= 60 with the minutes
\* part left out when it is 0 (45 -> "45 min", 75 -> "1h 15m", 60 -> "1h");
\* a field without a value has no entry in the summary list, and the other
\* fields have theirs, in the order Prep Time, Cook Time, Total Time, Yields.
C16_FormatTime ==
  Rendered =>
    LET m == fData.prep_time IN
    /\ m <= 0 => fOut.prepTime = Null
    /\ (1 <= m /\ m < 60) => fOut.prepTime = Str(ToString(m) \o " min")
    /\ (m >= 60 /\ m % 60 = 0) => fOut.prepTime = Str(ToString(m \div 60) \o "h")
    /\ (m >= 60 /\ m % 60 # 0) =>
         fOut.prepTime = Str(ToString(m \div 60) \o "h " \o ToString(m % 60) \o "m")
    /\ m = 45 => fOut.prepTime = Str("45 min")
    /\ m = 75 => fOut.prepTime = Str("1h 15m")
    /\ m = 60 => fOut.prepTime = Str("1h")
    /\ fData.cook_time = 0 => fOut.cookTime = Null
    /\ fData.cook_time = 45 => fOut.cookTime = Str("45 min")
    /\ fData.cook_time = 60 => fOut.cookTime = Str("1h")
    /\ fData.total_time = -1 => fOut.totalTime = Null
    /\ fData.total_time = 75 => fOut.totalTime = Str("1h 15m")
    /\ Labels(fOut.summaryItems) =
         (IF m > 0 THEN <<"Prep Time">> ELSE <<>>)
         \o (IF fData.cook_time > 0 THEN <<"Cook Time">> ELSE <<>>)
         \o (IF fData.total_time > 0 THEN <<"Total Time">> ELSE <<>>)
         \o (IF fData.yields > 0 THEN <<"Yields">> ELSE <<>>)
    /\ \A i \in 1..Len(fOut.summaryItems) : fOut.summaryItems[i].value # Null

C16_Witness ==
  /\ Rendered
  /\ fData.prep_time = 120
  /\ fData.cook_time = 0
  /\ fData.total_time = 75
  /\ fOut.prepTime = Str("2h")
  /\ fOut.totalTime = Str("1h 15m")
  /\ Labels(fOut.summaryItems) = <<"Prep Time", "Total Time">>

\* ------------------------------------------------------------------------
\* Claims about the outbound calls of the handler (specification Spec)
\* ------------------------------------------------------------------------

\* C17: no retries: during the handling of one request the oEmbed endpoint
\* is called at most once and the model is called at most once, whatever the
\* outcome of each call.
C17_NoRetries ==
  \A r \in Reqs :
    /\ Len(oembedCalls[r]) <= 1
    /\ Len(modelCalls[r]) <= 1

C17_Witness ==
  \E r \in Reqs :
    /\ pc[r] = "done"
    /\ oembed[r].state = "fetch_rejected"
    /\ genAI[r].state = "rejected"
    /\ Len(oembedCalls[r]) = 1
    /\ Len(modelCalls[r]) = 1
    /\ AnsweredError(r, 500)

\* the variants that compute a platform tag
ClassifyingVariants == {"structured", "multiRaw", "videoUrl", "htmlSimple", "htmlRich"}

\* C18: the oEmbed call is issued only for requests classified tiktok or
\* youtube (the TikTok-only variant with enrichment classifies nothing and
\* asks the TikTok endpoint for every request); a request classified
\* website, instagram or unknown never causes an oEmbed call, and a call goes
\* to the endpoint of the request's platform.
C18_EnrichmentOnlyForVideo ==
  \A r \in Reqs :
    /\ platform[r] \in {"website", "instagram", "unknown"} => oembedCalls[r] = <<>>
    /\ oembedCalls[r] # <<>> =>
         IF variant \in ClassifyingVariants
         THEN /\ platform[r] \in {"tiktok", "youtube"}
              /\ StartsWith(oembedCalls[r][1],
                    "https://www." \o platform[r] \o ".com/oembed?url=")
         ELSE /\ variant = "tiktokOembed"
              /\ StartsWith(oembedCalls[r][1], "https://www.tiktok.com/oembed?url=")

C18_Witness ==
  \E r \in Reqs :
    /\ variant = "videoUrl"
    /\ platform[r] = "instagram"
    /\ oembedCalls[r] = <<>>
    /\ Len(modelCalls[r]) = 1
    /\ Len(sent[r]) = 1 /\ sent[r][1].status = 200

\* the enrichment call of the request has settled: the fetch rejected, the
\* status was not OK, or the body was read (or could not be read)
EnrichmentSettled(r) == oembed[r].state # "none"

\* C19: within one request the two outbound calls are sequential: the oEmbed
\* call is issued while no model call has been issued, and the model call of
\* a request with an oEmbed call is issued in the step in which that call
\* settles or after it, never while it is pending.
C19_Sequential ==
  [][ \A r \in Reqs :
        /\ oembedCalls'[r] # oembedCalls[r] =>
             modelCalls[r] = <<>> /\ modelCalls'[r] = <<>>
        /\ (modelCalls'[r] # modelCalls[r] /\ oembedCalls'[r] # <<>>) =>
             /\ oembedCalls[r] # <<>>
             /\ oembed'[r].state # "none"
        /\ (pc'[r] \in {"await_fetch", "await_json"}) => modelCalls'[r] = <<>> ]_vars

C19_Witness ==
  \E r \in Reqs :
    /\ variant = "htmlSimple"
    /\ Len(oembedCalls[r]) = 1
    /\ EnrichmentSettled(r)
    /\ oembed[r].state = "ok"
    /\ Len(modelCalls[r]) = 1
    /\ pc[r] = "await_model"

SuccessKinds == {"data", "html", "recipe", "analysis"}

DataFields ==
  { "title", "description", "prep_time", "cook_time", "total_time", "yields",
    "ingredients", "instructions", "image", "url", "host" }

\* a response that is a success body and nothing else
FullSuccess(r, m) ==
  /\ m.status = 200
  /\ m.body.kind \in SuccessKinds
  /\ m.body.error = ""
  /\ m.body.success # "false"
  /\ m.body.kind = "data" =>
       /\ m.body.success = "true"
       /\ m.body.payload.source = platform[r]
       /\ DOMAIN m.body.payload.data = DataFields
       /\ m.body.payload.data.url = body[r].url.s
  /\ m.body.kind = "html" =>
       /\ StartsWith(m.body.payload.s, "<div>")
       /\ Includes(m.body.payload.s, "</ol></div>")

\* a response that is an error body and nothing else
ErrorOnly(m) ==
  /\ m.status \in {400, 500}
  /\ m.body.kind = "error"
  /\ m.body.error # ""
  /\ m.body.success # "true"
  /\ m.body.payload = Undefined

ConcurrentBodies(v) ==
  { [url |-> u, prompt |-> q] :
      u \in { Str(""), Str("https://www.tiktok.com/@chef/video/1"),
              Str("https://example.com/recipe") },
      q \in IF v = "promptAnalysis" THEN {Str("List the ingredients")}
            ELSE {Undefined} }

ConcurrentOembedBodies ==
  { [t |-> "object", title |-> Str("Pasta"), author_name |-> Str("Chef")], Null }

ConcurrentModelErrors == {[isError |-> TRUE, message |-> "429 quota exceeded"]}

ConcurrentModelTexts == {Undefined, Str("Sorry, I cannot watch videos."), Str(RecipeTextImages)}

\* Node runs one handler step at a time; which request's step is next is
\* up to the event loop
NextConcurrent ==
  \E r \in Reqs :
    HandleAmong(r, ConcurrentBodies(variant), ConcurrentOembedBodies,
                ConcurrentModelErrors, ConcurrentModelTexts)

SpecConcurrent == Init /\ [][NextConcurrent]_vars

\* what the handler of r has computed, as far as it has come, from the
\* deployment (variant, API_KEY), the request's own body and the replies of
\* the collaborators to this request
OwnTitle(r) ==
  IF oembed[r].state = "ok" /\ oembed[r].data # Null
  THEN OrEmpty(oembed[r].data.title) ELSE ""

OwnAuthor(r) ==
  IF oembed[r].state = "ok" /\ oembed[r].data # Null
  THEN OrEmpty(oembed[r].data.author_name) ELSE ""

OwnPlatform(r) ==
  IF pc[r] = "idle" THEN "unclassified"
  ELSE Entry(variant, apiKey, body[r]).platform

OwnModelCalls(r) ==
  IF pc[r] = "idle" THEN <<>>
  ELSE LET e == Entry(variant, apiKey, body[r]) IN
       IF e.pc # "await_fetch" THEN e.call
       ELSE IF oembed[r].state = "none" THEN <<>>
       ELSE << GenerateContentCall(variant, e.platform,
                 VideoPrompt(variant, e.platform, OwnTitle(r), OwnAuthor(r),
                             body[r].url.s)) >>

OwnResponses(r) ==
  IF pc[r] = "idle" THEN {<<>>}
  ELSE LET e == Entry(variant, apiKey, body[r]) IN
       IF e.pc = "done" THEN {e.send}
       ELSE IF genAI[r].state = "none" THEN {<<>>}
       ELSE IF genAI[r].state = "rejected"
         THEN {<<CatchResponse(variant, errorMessage(genAI[r].error))>>}
       ELSE { <<Finish(variant, e.platform, body[r], genAI[r].text, elapsed)>> :
                elapsed \in ElapsedTimes }

\* the variables of one request's handler
Slot(r) ==
  << pc[r], body[r], platform[r], oembed[r], videoTitle[r], videoAuthor[r],
     genAI[r], oembedCalls[r], modelCalls[r], sent[r] >>

BothInFlight == \A r \in Reqs : pc[r] \in {"await_fetch", "await_json", "await_model"}

\* C21: requests handled concurrently do not interfere: in every
\* interleaving of two requests the platform tag, the model call (prompt and
\* schema) and the response of each request are the values computed from
\* that request's own body and the replies to that request, and a step of
\* one handler leaves the other request's variables and the deployment
\* (variant, API_KEY) unchanged.
C21_NoInterference ==
  /\ [](\A r \in Reqs :
          /\ platform[r] = OwnPlatform(r)
          /\ modelCalls[r] = OwnModelCalls(r)
          /\ sent[r] \in OwnResponses(r))
  /\ [][ /\ variant' = variant /\ apiKey' = apiKey
         /\ \A r, q \in Reqs :
              (r # q /\ Slot(r)' # Slot(r)) => Slot(q)' = Slot(q) ]_vars

C21_Witness ==
  /\ variant = "structured"
  /\ BothInFlight
  /\ body["r1"].url = Str("https://www.tiktok.com/@chef/video/1")
  /\ body["r2"].url = Str("https://example.com/recipe")
  /\ pc["r1"] = "await_model" /\ pc["r2"] = "await_model"
  /\ oembed["r1"].state = "ok"
  /\ platform["r1"] = "tiktok" /\ platform["r2"] = "website"
  /\ Includes(modelCalls["r1"][1].contents, "titled \"Pasta\" by author \"Chef\"")
  /\ ~Includes(modelCalls["r1"][1].contents, "example.com")
  /\ ~Includes(modelCalls["r2"][1].contents, "tiktok.com")

\* ------------------------------------------------------------------------
\* Further claims about the handler (specification Spec)
\* ------------------------------------------------------------------------

\* the URL of the request contains none of the platform substrings
NoKnownPlatform(r) ==
  /\ Truthy(body[r].url)
  /\ ~Includes(body[r].url.s, "tiktok.com")
  /\ ~Includes(body[r].url.s, "youtube.com")
  /\ ~Includes(body[r].url.s, "youtu.be")
  /\ ~Includes(body[r].url.s, "instagram.com")

\* C22: in the videoUrl variant (with API_KEY configured) a request whose
\* URL matches no known platform substring is classified unknown and
\* answered with HTTP 400 and the unsupported-URL message, without any oEmbed
\* or model call.
C22_UnknownRefused ==
  \A r \in Reqs :
    (variant = "videoUrl" /\ pc[r] # "idle" /\ ~CredentialAbsent
       /\ NoKnownPlatform(r)) =>
      /\ platform[r] = "unknown"
      /\ AnsweredError(r, 400)
      /\ Includes(sent[r][1].body.error, "Unsupported video URL")
      /\ NoOutboundCall(r)
      /\ pc[r] = "done"

C22_Witness ==
  \E r \in Reqs :
    /\ variant = "videoUrl"
    /\ body[r].url = Str("https://example.com/recipe")
    /\ platform[r] = "unknown"
    /\ AnsweredError(r, 400)
    /\ NoOutboundCall(r)

\* the variants whose schema can declare the image list
ImageVariants == {"structured", "htmlRich"}

RequiredFields == {"recipeName", "description", "ingredients", "instructions"}

\* C23: the response schema sent to the model declares the images field
\* only for a request classified website (in the structured and the rich
\* HTML variant, which are the ones that have the field); for tiktok and
\* youtube requests the schema has no images field; the required fields are
\* recipeName, description, ingredients, instructions on every path that
\* sends a schema, and every required field is declared.
C23_SchemaImages ==
  \A r \in Reqs :
    \A i \in 1..Len(modelCalls[r]) :
      LET call == modelCalls[r][i] IN
      /\ "images" \in call.properties <=>
           (variant \in ImageVariants /\ platform[r] = "website")
      /\ platform[r] \in {"tiktok", "youtube"} => "images" \notin call.properties
      /\ variant # "promptAnalysis" =>
           /\ call.required = RequiredFields
           /\ call.required \subseteq call.properties
      /\ variant = "promptAnalysis" => call.properties = {} /\ call.required = {}

C23_Witness ==
  \E r \in Reqs :
    /\ variant = "htmlRich"
    /\ platform[r] = "website"
    /\ Len(modelCalls[r]) = 1
    /\ "images" \in modelCalls[r][1].properties
    /\ modelCalls[r][1].required = RequiredFields

\* ------------------------------------------------------------------------
\* The handler under fair scheduling: every pending await settles and every
\* continuation runs.  The request bodies include a URL field that is not a
\* string.  The promise of the async handler rejects when getPlatform
\* throws; what happens then depends on the Express version the server is
\* built with: version 5 passes the rejection to its default error handler,
\* which answers 500, version 4 does not look at the promise, and no
\* response is ever sent.
\* ------------------------------------------------------------------------

LiveBodies(v) == Bodies(v) \cup {[url |-> Num("123"), prompt |-> Undefined]}

\* Express 5: the rejection reaches the default error handler
DefaultErrorHandler(r) ==
  /\ pc[r] = "threw"
  /\ sent' = [sent EXCEPT ![r] =
       Append(@, [ status |-> 500,
                   body |-> [ kind |-> "error", success |-> "absent",
                              error |-> "Internal Server Error",
                              payload |-> Undefined ] ])]
  /\ pc' = [pc EXCEPT ![r] = "done"]
  /\ UNCHANGED <<variant, apiKey, body, platform, oembed, videoTitle, videoAuthor,
                 genAI, oembedCalls, modelCalls, pureVars>>

\* Express 4: the rejection is unhandled, the request is never answered
UnhandledRejection(r) ==
  /\ pc[r] = "threw"
  /\ pc' = [pc EXCEPT ![r] = "abandoned"]
  /\ UNCHANGED <<variant, apiKey, body, platform, oembed, videoTitle, videoAuthor,
                 genAI, oembedCalls, modelCalls, sent, pureVars>>

NextLive ==
  \/ HandleAmong("r1", LiveBodies(variant), OembedBodies, ModelErrors, ModelTexts)
  \/ DefaultErrorHandler("r1")
  \/ UnhandledRejection("r1")

SpecLive == Init /\ [][NextLive]_vars /\ WF_vars(NextLive)

\* C24 as stated: provided every outbound call settles, every request
\* eventually receives exactly one response: no path through the handler
\* ends without a response and no path sends two.
C24_EventuallyOneResponse ==
  /\ \A r \in Reqs : (pc[r] # "idle") ~> (Len(sent[r]) = 1)
  /\ [](\A r \in Reqs : Len(sent[r]) <= 1)

\* what does hold: a request is answered exactly once unless its URL field
\* is a truthy value that is no string and the handler classifies it
AnsweredUnlessClassifierThrows ==
  /\ \A r \in Reqs :
       (pc[r] # "idle" /\ pc[r] # "threw" /\ pc[r] # "abandoned")
         ~> (Len(sent[r]) = 1 /\ pc[r] = "done")
  /\ [](\A r \in Reqs : Len(sent[r]) <= 1)
  /\ [](\A r \in Reqs :
          pc[r] \in {"threw", "abandoned"} =>
            body[r].url.t # "string" /\ sent[r] = <<>>)

\* C25: input validation comes before the credential check: without API_KEY
\* a request that lacks the URL field (or has it empty) is answered with HTTP
\* 400 and the missing-input message, not with the configuration error, and
\* the 500 configuration error is sent only for requests that carry a URL.
C25_ValidationBeforeCredential ==
  \A r \in Reqs :
    /\ (CredentialAbsent /\ pc[r] # "idle" /\ ~Truthy(body[r].url)) =>
         /\ AnsweredError(r, 400)
         /\ sent[r][1].body.error = MissingInputMessage(variant)
         /\ ~Includes(sent[r][1].body.error, "API_KEY")
    /\ \A i \in 1..Len(sent[r]) :
         Includes(sent[r][i].body.error, "API_KEY") =>
           /\ sent[r][i].status = 500
           /\ CredentialAbsent
           /\ Truthy(body[r].url)

C25_Witness ==
  \E r \in Reqs :
    /\ variant = "htmlSimple"
    /\ apiKey = Undefined
    /\ body[r].url = Undefined
    /\ AnsweredError(r, 400)
    /\ sent[r][1].body.error = "Missing sourceUrl in request body"

\* the hostname of the request URLs that are absolute, "" for the others
HostnameOf(url) ==
  CASE url = "https://www.tiktok.com/@chef/video/1" -> "www.tiktok.com"
    [] url = "https://www.youtube.com/watch?v=abc" -> "www.youtube.com"
    [] url = "https://instagram.com/p/x" -> "instagram.com"
    [] url = "https://example.com/recipe" -> "example.com"
    [] url = "https://example.com:8443/recipe" -> "example.com"
    [] OTHER -> ""

ValidRecipeText(text) ==
  text \in {Str(RecipeTextPartial), Str(RecipeTextPlain), Str(RecipeTextImages)}

\* C26: in the structured variant a success response is sent only for a
\* sourceUrl that is an absolute URL, with data.url the sourceUrl and
\* data.host its hostname; a request with a non-empty sourceUrl that is no
\* absolute URL is still classified and the model is called for it, and it is
\* answered with HTTP 500, with the invalid-URL error when the model
\* returned a valid recipe.
C26_HostOfSourceUrl ==
  \A r \in Reqs :
    (variant = "structured" /\ Truthy(body[r].url)) =>
      /\ \A i \in 1..Len(sent[r]) :
           sent[r][i].status = 200 =>
             /\ HostnameOf(body[r].url.s) # ""
             /\ sent[r][i].body.payload.data.url = body[r].url.s
             /\ sent[r][i].body.payload.data.host = HostnameOf(body[r].url.s)
      /\ (HostnameOf(body[r].url.s) = "" /\ ~CredentialAbsent /\ pc[r] # "idle") =>
           /\ platform[r] = "website"
           /\ Len(modelCalls[r]) = 1
           /\ pc[r] = "done" => AnsweredError(r, 500)
           /\ (ModelAnswered(r) /\ ValidRecipeText(genAI[r].text)) =>
                sent[r][1].body.error = "Failed to get recipe. Invalid URL"

C26_Witness ==
  \E r \in Reqs :
    /\ variant = "structured"
    /\ body[r].url = Str("example.com/recipe")
    /\ platform[r] = "website"
    /\ Len(modelCalls[r]) = 1
    /\ genAI[r].state = "resolved"
    /\ genAI[r].text = Str(RecipeTextPlain)
    /\ AnsweredError(r, 500)

\* the images of the model's answer that URL normalization keeps, resolved
\* against the request's sourceUrl
Survivors(r) ==
  LET recipe == JSONParse(genAI[r].text.s).value
  IN  IF Truthy(recipe.images)
      THEN NormalizeImages(recipe.images.a, body[r].url.s) ELSE <<>>

\* C27 as stated: in every success response of the structured variant,
\* whatever the platform tag, data.image is null or the absolute URL of an
\* image that survived URL normalization against sourceUrl.
C27_ImageSurvivedNormalization ==
  \A r \in Reqs :
    \A i \in 1..Len(sent[r]) :
      (variant = "structured" /\ sent[r][i].status = 200) =>
        LET image == sent[r][i].body.payload.data.image IN
        \/ image = Null
        \/ /\ AbsoluteImageUrl(image.s)
           /\ \E j \in 1..Len(Survivors(r)) : Survivors(r)[j].url = image

\* what does hold: the property on the website path; on the video paths
\* data.image is the URL of the main image as the model wrote it
ImageSurvivedOnWebsitePath ==
  \A r \in Reqs :
    \A i \in 1..Len(sent[r]) :
      (variant = "structured" /\ sent[r][i].status = 200) =>
        LET image == sent[r][i].body.payload.data.image
            recipe == JSONParse(genAI[r].text.s).value
        IN  IF platform[r] = "website"
            THEN \/ image = Null
                 \/ /\ AbsoluteImageUrl(image.s)
                    /\ \E j \in 1..Len(Survivors(r)) : Survivors(r)[j].url = image
            ELSE \/ image = Null
                 \/ \E j \in 1..Len(recipe.images.a) : recipe.images.a[j].url = image

\* ------------------------------------------------------------------------
\* The App component (part_004) and its backend clients (part_001,
\* services/geminiService.ts)
\* ------------------------------------------------------------------------

\* clicks on the button within one behaviour
MaxSubmits == 3

\* the component of part_004 6-106, which calls analyzeVideo, and the one of
\* part_004 237-355, which calls getRecipeFromUrl and parses the result
Components == {"analyzeVideo", "getRecipeFromUrl"}

\* what the user can type into the URL input
TypedUrls ==
  {"", "https://example.com/recipe", "https://www.tiktok.com/@chef/video/1"}

\* a JSON body of the backend, with the fields the clients read
ReplyBody(errorField, success, data, recipeField) ==
  [ ok |-> TRUE,
    value |-> [ t |-> "object", error |-> errorField, success |-> success,
                data |-> data, recipe |-> recipeField ] ]

RecipeData == [t |-> "object", title |-> Str("Pasta"), image |-> Null]

\* how `await fetch(backendUrl, ...)` and `await response.json()` settle:
\* fetch rejects, or resolves to a response whose body is JSON or is not
FetchOutcomes ==
  { [state |-> "rejected", message |-> "Failed to fetch"],
    [state |-> "rejected", message |-> "The operation was aborted."] }
  \cup
  [ state : {"response"}, ok : {FALSE},
    json : { [ok |-> FALSE],
             ReplyBody(Str("sourceUrl is required"), Bool(FALSE), Undefined, Undefined),
             ReplyBody(Str("AI service is not configured on the server."),
                       Undefined, Undefined, Undefined),
             ReplyBody(Undefined, Undefined, Undefined, Undefined) } ]
  \cup
  [ state : {"response"}, ok : {TRUE},
    json : { [ok |-> FALSE],
             [ok |-> TRUE, value |-> Null],
             ReplyBody(Undefined, Bool(TRUE), RecipeData, Undefined),
             ReplyBody(Undefined, Bool(TRUE), Undefined, Undefined),
             ReplyBody(Str("no recipe"), Bool(FALSE), Undefined, Undefined),
             ReplyBody(Undefined, Undefined, Undefined, Str(RecipeTextPlain)),
             ReplyBody(Undefined, Undefined, Undefined, Str("null")),
             ReplyBody(Undefined, Undefined, Undefined,
                       Str("Sorry, I cannot watch videos.")) } ]

Returned(value) == [ok |-> TRUE, value |-> value]

Thrown(message) == [ok |-> FALSE, message |-> message]

\* the message of the SyntaxError of response.json() and JSON.parse
SyntaxErrorMessage == "Unexpected token in JSON"

\* the message of the TypeError of reading a property of null
NullPropertyMessage(property) ==
  "Cannot read properties of null (reading '" \o property \o "')"

\* catch(e) of the clients, for an Error: the Error that is thrown on
ClientCatch(message) ==
  IF Includes(message, "Failed to fetch")
  THEN Thrown("Could not connect to the backend server. Is it running?")
  ELSE Thrown("An error occurred: " \o message)

\* errorData.error || 'Request to backend failed'
BackendError(data) ==
  IF Truthy(data.error) THEN data.error.s ELSE "Request to backend failed"

getRecipeFromUrl(outcome) ==
  IF outcome.state = "rejected" THEN ClientCatch(outcome.message)
  ELSE IF ~outcome.json.ok THEN ClientCatch(SyntaxErrorMessage)
  ELSE LET data == outcome.json.value IN
       IF ~outcome.ok
       THEN IF data = Null THEN ClientCatch(NullPropertyMessage("error"))
            ELSE ClientCatch(BackendError(data))
       ELSE IF data = Null THEN ClientCatch(NullPropertyMessage("recipe"))
            ELSE Returned(data.recipe)

analyzeVideo(outcome) ==
  IF outcome.state = "rejected" THEN ClientCatch(outcome.message)
  ELSE IF ~outcome.json.ok THEN ClientCatch(SyntaxErrorMessage)
  ELSE LET data == outcome.json.value IN
       IF data = Null
       THEN ClientCatch(NullPropertyMessage(IF outcome.ok THEN "success" ELSE "error"))
       ELSE IF ~outcome.ok \/ ~Truthy(data.success)
            THEN ClientCatch(BackendError(data))
            ELSE IF ~Truthy(data.data)
                 THEN ClientCatch("Backend response is missing the recipe data.")
                 ELSE Returned(data.data)

\* the try block of the click handler after the await: the value handed to
\* setRecipe / setRecipeHtml, or the Error that reaches the catch
TryBlock(component, outcome) ==
  IF component = "analyzeVideo" THEN analyzeVideo(outcome)
  ELSE LET resultJson == getRecipeFromUrl(outcome) IN
       IF ~resultJson.ok THEN resultJson
       ELSE IF resultJson.value.t # "string" THEN Thrown(SyntaxErrorMessage)
       ELSE LET parsedRecipe == JSONParse(resultJson.value.s) IN
            IF parsedRecipe.ok THEN Returned(parsedRecipe.value)
            ELSE Thrown(SyntaxErrorMessage)

EmptyUrlMessage(component) ==
  IF component = "analyzeVideo" THEN "Please provide a video URL."
  ELSE "Please provide a URL."

\* disabled={isLoading} of the input
InputDisabled(a) == a.isLoading

\* a button that stays enabled while a request is pending
ButtonDisabled_OnlyWhenEmpty(a) == a.url = ""

\* a button that is enabled with an empty input
ButtonDisabled_OnlyWhileLoading(a) == a.isLoading

\* disabled={isLoading || !sourceUrl} of the button
ButtonDisabled(a) == a.isLoading \/ a.url = ""

\* whether updates made after an await are committed together (automatic
\* batching of a React 18 root) or one render per set call (legacy root):
\* the sources do not fix the React version or the root
Batchings == BOOLEAN

InitApp ==
  /\ variant = "structured"
  /\ apiKey = Str("secret")
  /\ InitRequests
  /\ NoClassifierInput
  /\ NoNormalizerInput
  /\ NoDisplayInput
  /\ app \in [ component : Components, batched : Batchings, url : {""},
               result : {Null}, isLoading : {FALSE}, error : {Null},
               pending : {<<>>}, submits : {0} ]

\* onChange={(e) => setSourceUrl(e.target.value)}
ChangeUrl(u) ==
  /\ ~InputDisabled(app)
  /\ u # app.url
  /\ app' = [app EXCEPT !.url = u]
  /\ UNCHANGED <<handlerVars, cUrl, cTags, normVars, formatVars>>

\* onClick: the handler up to its await
Click ==
  /\ ~ButtonDisabled(app)
  /\ app.submits < MaxSubmits
  /\ IF app.url = ""
     THEN app' = [app EXCEPT !.error = Str(EmptyUrlMessage(app.component)),
                             !.submits = @ + 1]
     ELSE app' = [app EXCEPT !.isLoading = TRUE, !.error = Null, !.result = Null,
                             !.pending = Append(@, [url |-> app.url, stage |-> "await"]),
                             !.submits = @ + 1]
  /\ UNCHANGED <<handlerVars, cUrl, cTags, normVars, formatVars>>

Without(pending, i) ==
  SubSeq(pending, 1, i - 1) \o SubSeq(pending, i + 1, Len(pending))

\* the handler from the settling of its await: try or catch, then finally
Settle(i, outcome) ==
  /\ app.pending[i].stage = "await"
  /\ LET done == TryBlock(app.component, outcome)
         result == IF done.ok THEN done.value ELSE app.result
         message == IF done.ok THEN app.error
                    ELSE Str("Failed to get recipe: " \o done.message)
     IN  IF app.batched
         THEN app' = [app EXCEPT !.result = result, !.error = message,
                                 !.isLoading = FALSE,
                                 !.pending = Without(@, i)]
         ELSE app' = [app EXCEPT !.result = result, !.error = message,
                                 !.pending[i].stage = "finally"]
  /\ UNCHANGED <<handlerVars, cUrl, cTags, normVars, formatVars>>

\* finally { setIsLoading(false); } as a render of its own
Finally(i) ==
  /\ app.pending[i].stage = "finally"
  /\ app' = [app EXCEPT !.isLoading = FALSE, !.pending = Without(@, i)]
  /\ UNCHANGED <<handlerVars, cUrl, cTags, normVars, formatVars>>

NextApp ==
  \/ \E u \in TypedUrls : ChangeUrl(u)
  \/ Click
  \/ \E i \in 1..Len(app.pending) : \E outcome \in FetchOutcomes : Settle(i, outcome)
  \/ \E i \in 1..Len(app.pending) : Finally(i)

SpecApp == InitApp /\ [][NextApp]_vars

\* the handler calls that have been started and have not finished
InFlight == Len(app.pending)

\* C28: at most one backend request of the App component is in flight at any
\* time: while one is pending isLoading is true, so the input and the button
\* are disabled and no user action starts a second one.
C28_OneRequestInFlight ==
  /\ InFlight <= 1
  /\ InFlight = 1 => app.isLoading /\ InputDisabled(app) /\ ButtonDisabled(app)

\* a second request, started after the first had settled
C28_Witness ==
  /\ app # Undefined
  /\ app.submits >= 2
  /\ InFlight = 1
  /\ app.pending[1].stage = "await"

\* every started handler call has run to its end
Settled == app.submits > 0 /\ app.pending = <<>>

\* C29 as stated: a submit with a non-empty URL sets isLoading, and once the
\* backend call has settled (resolved, rejected, or unparsable) isLoading is
\* false again and exactly one of result and error is set.
C29_LoadingResetsOneOutcome ==
  /\ InFlight > 0 => app.isLoading
  /\ Settled => /\ ~app.isLoading
                /\ (app.result # Null) # (app.error # Null)

\* what does hold: isLoading is reset on every path, at most one of the two
\* is set, and the component that calls the analyzeVideo of part_001 always
\* sets one
LoadingAlwaysResets ==
  /\ InFlight > 0 => app.isLoading
  /\ Settled => /\ ~app.isLoading
                /\ ~(app.result # Null /\ app.error # Null)
                /\ app.component = "analyzeVideo" =>
                     (app.result # Null \/ app.error # Null)

====
